---- MODULE Spec2Model ----
(***************************************************************************)
(* A model of the fts-engine indexing and retrieval subsystem: the radix   *)
(* trie, the arena HAMT, the trigram trie, the search service built on an  *)
(* index and a key generator, and the key-value inverted index.            *)
(*                                                                         *)
(* Strings are sequences of byte values (97 is 'a', 49 is '1', ...).       *)
(* A Go map[string]int is a function whose domain is the set of its keys.  *)
(* A nil map or slice and an empty one are both the empty function << >>.  *)
(* Heap nodes reached through pointers live in a sequence; a pointer is an *)
(* index into it and allocation appends.                                   *)
(***************************************************************************)
EXTENDS Integers, Sequences, FiniteSets, Bags, TLC

VARIABLES
    rnodes,     \* radix trie: the heap of *Node, rnodes[1] is t.root
    rhist,      \* history: rhist[<<k, d>>] = number of radix Insert(k, d) calls made
    hnodes,     \* arena HAMT: t.nodes, hnodes[1] is the root (nodeptr 0)
    hterms,     \* arena HAMT: t.terms
    hhist,      \* history: hhist[<<k, d>>] = number of HAMT Insert(k, d) calls made
    ttrie,      \* trigram trie: the heap of *Node, ttrie[1] is t.root
    tlast,      \* the last trigram Insert call: its arguments and what it returned
    tcalls,     \* the number of trigram Insert calls made
    thist,      \* history: per (key, docID) the Insert calls that returned nil
    sindex,     \* search service: s.index, a trigram trie (its heap of *Node)
    sdone,      \* history: the IndexDocument calls made, as [docID, content]
    sret,       \* what the last IndexDocument call returned
    sres,       \* the last SearchDocuments call: its arguments and what it returned
    ckind,      \* two indexes of one kind: the kind ("none" before New)
    cA,         \* the first index, which takes each Insert as it is issued
    cB,         \* the second index, which takes the same inserts in any order
    cpend,      \* the bag of inserts the second index has yet to take
    cn,         \* the number of inserts issued
    kvdb,       \* key-value store: the LevelDB contents, key -> value
    kvw,        \* per pool worker: its position in ProcessDocument and its locals
    kvsent,     \* the number of jobs given to the pool
    kvdone,     \* the documents whose ProcessDocument call has returned
    lheap,      \* shared radix trie: the heap of *Node, lheap[1] is t.root
    lmu,        \* shared radix trie: t.mu, [writer, readers]
    lth,        \* per goroutine: its position in Insert or Search and its locals
    lstarted,   \* history: per (key, docID) the number of Insert calls made
    lreturned,  \* history: per (key, docID) the number of Insert calls returned
    lres,       \* the last Search that returned: key, result, and the Insert
                \* calls returned when it was called and made when it returned
    lcalls,     \* the number of Insert and Search calls made
    stdb,       \* key-value store used by one caller: the LevelDB keys and values
    stlast,     \* the last call on that store: its arguments, the store when it
                \* began and what it returned
    gdb,        \* KV search: the store the running SearchDocuments call reads
    gquery,     \* KV search: the query of the running call
    ggo,        \* KV search: the per-token goroutines of the running call
    gfreq,      \* KV search: docFrequency
    gmatch,     \* KV search: wordMatchCount
    gmu,        \* KV search: whether mu is held
    gres,       \* KV search: what the last call saw when wg.Wait returned
    snheap,     \* snapshot: a radix trie, the heap of *Node
    snpure,     \* history: the trie that the Insert calls alone build
    snheld,     \* the Search results a caller holds, each with what it last saw or wrote
    sncalls,    \* snapshot: the number of calls and writes to results made
    aptr,       \* pointer radix trie (fts_radix_trie.go): the heap of *Node
    aarena,     \* arena radix trie (radix_hash_trie.go): t.nodes, aarena[1] is t.root
    ahist,      \* history: per (key, docID) the number of Insert calls made on both
    asteps,     \* the number of Insert calls or runs of repeated Insert calls made
    bchan,      \* batcher: the documents buffered in s.writeChan, oldest first
    bclosed,    \* batcher: whether s.writeChan is closed
    bbatch,     \* batcher: the documents put into the writeWorker's current batch
    bdb,        \* batcher: the LevelDB keys and values
    bwrites,    \* history: per accepted document the number of s.db.Write calls that held it
    bacc,       \* history: the IDs of the documents BatchDocument has accepted, in order
    bworker,    \* batcher: the position of writeWorker
    bstop,      \* batcher: the position of StopWorkers
    bflushes,   \* history: the kinds of flush that wrote a document
    pnext,      \* worker pool: the job the driver's loop hands to AddJob next
    pdrv,       \* worker pool: the position of the driver
    pwork,      \* worker pool: per worker its position and the job it executes
    pctx,       \* worker pool: whether the context passed to Run is cancelled
    pclosed,    \* worker pool: whether Run has closed wp.jobs
    pfinished,  \* history: the jobs whose execute has returned
    patreport,  \* history: the jobs still executing when the driver reported
    tkrunes,    \* tokenizer: the code points of the input, each as its UTF-8 bytes
    tktokens,   \* tokenizer: the tokens of both Tokenize functions on the input
    hpnodes,    \* pointer HAMT: the Nodes, the root first; children are indices
    hpterms,    \* pointer HAMT: the Terminals the Nodes of the last level point to
    hphist,     \* history: per (key, docID) the Insert calls made on the pointer HAMT
    lfheap,     \* leaf HAMT: the Nodes, Leaves and CollisionNodes, the root first
    lfhist,     \* history: per (key, docID) the Insert calls made on the leaf HAMT
    bknodes,    \* bucket HAMT: t.nodes, the root first
    bkterms,    \* bucket HAMT: t.terms, each a bitmap and its buckets
    bkcalls,    \* bucket HAMT: the number of Insert calls made
    altrie,     \* result aliasing: a trigram trie
    alnodes,    \* result aliasing: the nodes of an arena HAMT
    alterms,    \* result aliasing: the terminals of that HAMT
    algen,      \* result aliasing: per key of the HAMT the number of backing arrays its docs have had
    alheld,     \* result aliasing: the result of the last Search, which its caller still holds
    alcalls,    \* result aliasing: the number of calls made
    wpjobs,     \* buffered pool: the number of jobs waiting in wp.jobs
    wpjobsClosed,\* buffered pool: whether GenerateFrom has closed wp.jobs
    wpresults,  \* buffered pool: the number of results waiting in wp.results
    wpactive,   \* buffered pool: the number of values in wp.activeWorkers
    wpctx,      \* buffered pool: whether the context passed to Run is cancelled
    wppc,       \* buffered pool: the position of each worker goroutine
    wpDone,     \* buffered pool: whether Run has closed wp.Done
    wpsent      \* history: the number of jobs sent into wp.jobs

radixVars == <<rnodes, rhist>>
hamtVars == <<hnodes, hterms, hhist>>
trigramVars == <<ttrie, tlast, tcalls, thist>>
searchVars == <<sindex, sdone, sret, sres>>
commVars == <<ckind, cA, cB, cpend, cn>>
kvVars == <<kvdb, kvw, kvsent, kvdone>>
linVars == <<lheap, lmu, lth, lstarted, lreturned, lres, lcalls>>
storeVars == <<stdb, stlast>>
ksVars == <<gdb, gquery, ggo, gfreq, gmatch, gmu, gres>>
snapVars == <<snheap, snpure, snheld, sncalls>>
arenaVars == <<aptr, aarena, ahist, asteps>>
batcherVars == <<bchan, bclosed, bbatch, bdb, bwrites, bacc, bworker, bstop, bflushes>>
poolVars == <<pnext, pdrv, pwork, pctx, pclosed, pfinished, patreport>>
tokVars == <<tkrunes, tktokens>>
hamPtrVars == <<hpnodes, hpterms, hphist>>
leafVars == <<lfheap, lfhist>>
bucketVars == <<bknodes, bkterms, bkcalls>>
aliasVars == <<altrie, alnodes, alterms, algen, alheld, alcalls>>
wpoolVars == <<wpjobs, wpjobsClosed, wpresults, wpactive, wpctx, wppc, wpDone, wpsent>>
vars == <<radixVars, hamtVars, trigramVars, searchVars, commVars, kvVars, linVars, storeVars, ksVars, snapVars, arenaVars, batcherVars, poolVars, tokVars, hamPtrVars, leafVars, bucketVars, aliasVars, wpoolVars>>

----------------------------------------------------------------------------
(* Helpers on strings and maps                                             *)

Min(S) == CHOOSE x \in S : \A y \in S : x <= y

\* s[p:] of Go, p counted from 0
Drop(s, p) == SubSeq(s, p + 1, Len(s))

\* s[:p] of Go
Take(s, p) == SubSeq(s, 1, p)

\* the elements of a sequence
Range(s) == { s[i] : i \in 1..Len(s) }

\* the number of positions of s that hold x
Occurrences(s, x) == Cardinality({ i \in 1..Len(s) : s[i] = x })

\* the docIDs the model uses: "1" and "2"
DocIDs == { <<49>>, <<50>> }

\* make(map[string]int)
EmptyDocs == << >>

\* docs[docID]++ on a Go map: a missing key reads as 0
\* a mutant of MapIncr: the count of a document is set, not added to
MapIncrIdempotent(docs, docID) ==
    [d \in (DOMAIN docs) \cup {docID} |-> IF d = docID THEN 1 ELSE docs[d]]

MapIncr(docs, docID) ==
    IF docID \in DOMAIN docs
    THEN [docs EXCEPT ![docID] = @ + 1]
    ELSE [d \in (DOMAIN docs) \cup {docID} |-> IF d = docID THEN 1 ELSE docs[d]]

----------------------------------------------------------------------------
(* Radix trie                                                              *)

\* the number of Insert calls a behaviour makes
RadixMaxInserts == 4

\* "", "a", "ab", "abc", "abd", "b", "ba"
RadixKeys ==
    { << >>, <<97>>, <<97, 98>>, <<97, 98, 99>>, <<97, 98, 100>>, <<98>>, <<98, 97>> }

RECURSIVE lcpFrom(_, _, _)
lcpFrom(a, b, i) ==
    IF i < Len(a) /\ i < Len(b) /\ a[i + 1] = b[i + 1]
    THEN lcpFrom(a, b, i + 1)
    ELSE i

\* longest common prefix
lcp(a, b) == lcpFrom(a, b, 0)

newNode(prefix) ==
    [prefix |-> prefix, terminal |-> FALSE, docs |-> EmptyDocs, children |-> << >>]

RadixNew == << newNode(<< >>) >>

\* the first child of current sharing a non-empty prefix with rest, 0 if none:
\* the range loop acts on the first child with p # 0 and leaves the loop there
\* a mutant of FirstHit: only a child whose whole prefix matches is a hit
FirstHitWholePrefix(h, current, rest) ==
    LET ch   == h[current].children
        hits == { i \in 1..Len(ch) :
                    /\ lcp(rest, h[ch[i]].prefix) # 0
                    /\ lcp(rest, h[ch[i]].prefix) = Len(h[ch[i]].prefix) }
    IN  IF hits = {} THEN 0 ELSE Min(hits)

FirstHit(h, current, rest) ==
    LET ch   == h[current].children
        hits == { i \in 1..Len(ch) : lcp(rest, h[ch[i]].prefix) # 0 }
    IN  IF hits = {} THEN 0 ELSE Min(hits)

\* no child fitted: add a new terminal node under current
RadixAddLeaf(h, current, rest, docID) ==
    LET node == [newNode(rest) EXCEPT !.terminal = TRUE,
                                      !.docs = MapIncr(@, docID)]
        id   == Len(h) + 1
    IN  [Append(h, node) EXCEPT ![current].children = Append(@, id)]

\* a mutant of RadixSplit: the old child is not relinked under the middle node
RadixSplitDropChild(h, current, i, rest, p, docID) ==
    LET child     == h[current].children[i]
        common    == Take(h[child].prefix, p)
        newSuffix == Drop(rest, p)
        mid       == Len(h) + 1
        h1        == [Append(h, newNode(common)) EXCEPT
                         ![current].children[i] = mid]
    IN  IF newSuffix # << >>
        THEN LET node == [newNode(newSuffix) EXCEPT !.terminal = TRUE,
                                                    !.docs = MapIncr(@, docID)]
             IN  [Append(h1, node) EXCEPT ![mid].children = Append(@, mid + 1)]
        ELSE [h1 EXCEPT ![mid].terminal = TRUE, ![mid].docs = MapIncr(@, docID)]

\* a mutant of RadixSplit: the prefix of the old child is not shortened
RadixSplitKeepPrefix(h, current, i, rest, p, docID) ==
    LET child     == h[current].children[i]
        common    == Take(h[child].prefix, p)
        newSuffix == Drop(rest, p)
        mid       == Len(h) + 1
        h1        == [Append(h, newNode(common)) EXCEPT
                         ![mid].children = <<child>>,
                         ![current].children[i] = mid]
    IN  IF newSuffix # << >>
        THEN LET node == [newNode(newSuffix) EXCEPT !.terminal = TRUE,
                                                    !.docs = MapIncr(@, docID)]
             IN  [Append(h1, node) EXCEPT ![mid].children = Append(@, mid + 1)]
        ELSE [h1 EXCEPT ![mid].terminal = TRUE, ![mid].docs = MapIncr(@, docID)]

\* split the edge to child i of current after p common bytes
RadixSplit(h, current, i, rest, p, docID) ==
    LET child       == h[current].children[i]
        common      == Take(h[child].prefix, p)
        childSuffix == Drop(h[child].prefix, p)
        newSuffix   == Drop(rest, p)
        mid         == Len(h) + 1
        h1          == [Append(h, newNode(common)) EXCEPT
                           ![child].prefix = childSuffix,
                           ![mid].children = <<child>>,
                           ![current].children[i] = mid]
    IN  IF newSuffix # << >>
        THEN LET node == [newNode(newSuffix) EXCEPT !.terminal = TRUE,
                                                    !.docs = MapIncr(@, docID)]
             IN  [Append(h1, node) EXCEPT ![mid].children = Append(@, mid + 1)]
        ELSE [h1 EXCEPT ![mid].terminal = TRUE, ![mid].docs = MapIncr(@, docID)]

RECURSIVE RadixInsertFrom(_, _, _, _)
RadixInsertFrom(h, current, rest, docID) ==
    LET i == FirstHit(h, current, rest)
    IN  IF i = 0
        THEN RadixAddLeaf(h, current, rest, docID)
        ELSE LET child == h[current].children[i]
                 p     == lcp(rest, h[child].prefix)
             IN  IF p = Len(h[child].prefix)
                 THEN IF Drop(rest, p) = << >>
                      THEN [h EXCEPT ![child].terminal = TRUE,
                                     ![child].docs = MapIncr(@, docID)]
                      ELSE RadixInsertFrom(h, child, Drop(rest, p), docID)
                 ELSE RadixSplit(h, current, i, rest, p, docID)

\* Trie.Insert: the heap after Insert(word, docID)
RadixInsert(h, word, docID) == RadixInsertFrom(h, 1, word, docID)

\* Trie.next: nextNode (0 is nil), nextRest, matched, exact
RadixNext(h, current, rest) ==
    LET i    == FirstHit(h, current, rest)
        none == [node |-> 0, rest |-> << >>, matched |-> FALSE, exact |-> FALSE]
    IN  IF i = 0
        THEN none
        ELSE LET child == h[current].children[i]
                 p     == lcp(rest, h[child].prefix)
             IN  IF p = Len(rest)
                 THEN IF h[child].terminal
                      THEN [node |-> child, rest |-> << >>,
                            matched |-> TRUE, exact |-> TRUE]
                      ELSE none
                 ELSE IF p = Len(h[child].prefix)
                      THEN [node |-> child, rest |-> Drop(rest, p),
                            matched |-> TRUE, exact |-> FALSE]
                      ELSE none

\* collectDocs: the postings of a node as docID -> count
collectDocs(docs) == docs

RECURSIVE RadixSearchFrom(_, _, _)
RadixSearchFrom(h, current, rest) ==
    LET n == RadixNext(h, current, rest)
    IN  IF ~n.matched
        THEN << >>
        ELSE IF n.exact
             THEN collectDocs(h[n.node].docs)
             ELSE RadixSearchFrom(h, n.node, n.rest)

\* Trie.Search
RadixSearch(h, word) == RadixSearchFrom(h, 1, word)

----------------------------------------------------------------------------
(* Arena HAMT (hamt.go)                                                    *)
(* A uint32 hash is the record [hi, lo] of its two 16-bit halves; a bitmap *)
(* is the set of its set bit positions, so that popcount is Cardinality.   *)
(* A nodeptr is an index into hnodes or hterms counted from 1.             *)

\* the number of Insert calls a behaviour makes
HamtMaxInserts == 4

\* bits stored per node
quant == 5

\* constant trie depth
depth == 7

\* uint32(1<<quant) - 1
lowerbits == 31

\* "a", "b", "ba" ("a" and "ba" share the level-0 slot only), "eklu" and "cbaba"
\* (hashes 456667f6 and 856667f6: equal in the low 30 bits), "liquid" and
\* "costarring" (both hash to 5e4daa9d)
HamtKeys ==
    { <<97>>, <<98>>, <<98, 97>>,
      <<101, 107, 108, 117>>, <<99, 98, 97, 98, 97>>,
      <<108, 105, 113, 117, 105, 100>>,
      <<99, 111, 115, 116, 97, 114, 114, 105, 110, 103>> }

RECURSIVE XorBits(_, _, _)
\* the bitwise exclusive or of the n low bits of a and b
XorBits(a, b, n) ==
    IF n = 0 THEN 0
    ELSE (((a % 2) + (b % 2)) % 2) + 2 * XorBits(a \div 2, b \div 2, n - 1)

\* hash ^= uint32(c) for a byte c
HashXorByte(h, c) ==
    [hi |-> h.hi, lo |-> ((h.lo \div 256) * 256) + XorBits(h.lo % 256, c, 8)]

\* hash *= 16777619 (0x01000193 = 2^24 + 403) modulo 2^32
HashMulPrime(h) ==
    LET low == h.lo * 403
    IN  [lo |-> (low % 65536),
         hi |-> ((h.hi * 403) + (low \div 65536) + ((h.lo % 256) * 256)) % 65536]

RECURSIVE fnv1a(_, _, _)
fnv1a(h, str, i) ==
    IF i > Len(str) THEN h
    ELSE fnv1a(HashMulPrime(HashXorByte(h, str[i])), str, i + 1)

\* fnv.New32a over the bytes of str; the offset basis is 0x811C9DC5
strhash32(str) == fnv1a([hi |-> 33052, lo |-> 40389], str, 1)

\* the hashes of the keys of the model, computed once
HamtHashes == [k \in HamtKeys |-> strhash32(k)]

\* hash := strhash32(word) for a key of the model
HashOf(word) == HamtHashes[word]

\* hash >>= quant
HashShift(h) ==
    [hi |-> h.hi \div 32, lo |-> (h.lo \div 32) + ((h.hi % 32) * 2048)]

\* hash & lowerbits
HashSlot(h) == h.lo % (lowerbits + 1)

\* bits.OnesCount32(bitmap & (mask - 1)) for mask = 1 << idx
OnesBelow(bitmap, idx) == Cardinality({ j \in bitmap : j < idx })

\* slices.Insert(s, index, v), index counted from 0
SliceInsert(s, index, v) ==
    SubSeq(s, 1, index) \o <<v>> \o SubSeq(s, index + 1, Len(s))

RECURSIVE StrLess(_, _)
\* a < b on Go strings: bytewise lexicographic order
StrLess(a, b) ==
    IF b = << >> THEN FALSE
    ELSE IF a = << >> THEN TRUE
    ELSE IF a[1] # b[1] THEN a[1] < b[1]
    ELSE StrLess(Tail(a), Tail(b))

\* a >= b on Go strings
StrGE(a, b) == ~StrLess(a, b)

RECURSIVE SortSearch(_, _, _)
\* sort.Search(n, f): binary search for the least index in [0, n) where f
\* holds, by halving [i, j); ge is the set of indices (from 0) where f holds
SortSearch(i, j, ge) ==
    IF i < j
    THEN LET h == (i + j) \div 2
         IN  IF h \notin ge THEN SortSearch(h + 1, j, ge) ELSE SortSearch(i, h, ge)
    ELSE i

\* Documents.Add: d is a sequence of [ID, Count] kept in ID order
\* a mutant of DocumentsAdd: a new document is appended, not placed in order
DocumentsAddAtEnd(d, id) ==
    IF \E i \in 1..Len(d) : d[i].ID = id
    THEN LET i == CHOOSE j \in 1..Len(d) : d[j].ID = id
         IN  [d EXCEPT ![i].Count = @ + 1]
    ELSE Append(d, [ID |-> id, Count |-> 1])

DocumentsAdd(d, id) ==
    LET i == SortSearch(0, Len(d), { x \in 0..(Len(d) - 1) : StrGE(d[x + 1].ID, id) })
    IN  IF i < Len(d) /\ d[i + 1].ID = id
        THEN [d EXCEPT ![i + 1].Count = @ + 1]
        ELSE SliceInsert(d, i, [ID |-> id, Count |-> 1])

\* a mutant of TerminalAppend: a non-empty terminal is taken to hold the word
\* (the bucket is addressed by the hash path alone, the key is not compared)
TerminalAppendNoKeyCompare(t, word, id) ==
    IF Len(t.entries) > 0
    THEN [t EXCEPT !.entries[1].docs = DocumentsAdd(@, id)]
    ELSE [t EXCEPT !.entries = << [key |-> word,
                                   docs |-> << [ID |-> id, Count |-> 1] >>] >>]

\* a mutant of TerminalAppend: a new entry is put after the entries of the
\* terminal, not at the index the binary search found
TerminalAppendAtEnd(t, word, id) ==
    LET n == Len(t.entries)
        i == SortSearch(0, n, { x \in 0..(n - 1) : StrGE(t.entries[x + 1].key, word) })
    IN  IF i < n /\ t.entries[i + 1].key = word
        THEN [t EXCEPT !.entries[i + 1].docs = DocumentsAdd(@, id)]
        ELSE [t EXCEPT !.entries =
                 Append(@, [key |-> word,
                            docs |-> << [ID |-> id, Count |-> 1] >>])]

\* Terminal.Append: t.entries is a sequence of [key, docs] kept in key order
TerminalAppend(t, word, id) ==
    LET n == Len(t.entries)
        i == SortSearch(0, n, { x \in 0..(n - 1) : StrGE(t.entries[x + 1].key, word) })
    IN  IF i < n /\ t.entries[i + 1].key = word
        THEN [t EXCEPT !.entries[i + 1].docs = DocumentsAdd(@, id)]
        ELSE [t EXCEPT !.entries =
                 SliceInsert(@, i, [key |-> word,
                                    docs |-> << [ID |-> id, Count |-> 1] >>])]

\* Terminal.Find: the docs of word, << >> (nil) if absent
TerminalFind(t, word) ==
    LET n == Len(t.entries)
        i == SortSearch(0, n, { x \in 0..(n - 1) : StrGE(t.entries[x + 1].key, word) })
    IN  IF i < n /\ t.entries[i + 1].key = word
        THEN t.entries[i + 1].docs
        ELSE << >>

\* Node{} and Terminal{}
HamtEmptyNode == [bitmap |-> {}, children |-> << >>]
HamtEmptyTerm == [entries |-> << >>]

\* a mutant of NodeAppend: the branch is put at the end of the children
NodeAppendAtEnd(n, idx, branch) ==
    [bitmap |-> n.bitmap \cup {idx}, children |-> Append(n.children, branch)]

\* Node.Append
NodeAppend(n, idx, branch) ==
    LET bitmap == n.bitmap \cup {idx}
        index  == OnesBelow(bitmap, idx)
    IN  [bitmap |-> bitmap, children |-> SliceInsert(n.children, index, branch)]

\* Trie.nextNode: the child of node n in the slot of hash, or n and FALSE
nextNode(nodes, n, hash) ==
    LET idx == HashSlot(hash)
    IN  IF idx \notin nodes[n].bitmap
        THEN [ptr |-> n, ok |-> FALSE]
        ELSE [ptr |-> nodes[n].children[OnesBelow(nodes[n].bitmap, idx) + 1],
              ok |-> TRUE]

RECURSIVE HamtDescend(_, _, _, _)
\* the first loop of Trie.Insert, k iterations left: creates missing nodes
HamtDescend(nodes, node, hash, k) ==
    IF k = 0
    THEN [nodes |-> nodes, node |-> node, hash |-> hash]
    ELSE LET nx == nextNode(nodes, node, hash)
         IN  IF nx.ok
             THEN HamtDescend(nodes, nx.ptr, HashShift(hash), k - 1)
             ELSE LET nodes1  == Append(nodes, HamtEmptyNode)
                      newNode_ == Len(nodes1)
                      nodes2  == [nodes1 EXCEPT ![node] =
                                     NodeAppend(@, HashSlot(hash), newNode_)]
                  IN  HamtDescend(nodes2, newNode_, HashShift(hash), k - 1)

\* Trie.Insert: [nodes, terms] after Insert(word, id)
HamtInsert(nodes, terms, word, id) ==
    LET d  == HamtDescend(nodes, 1, HashOf(word), depth - 2)
        nx == nextNode(d.nodes, d.node, d.hash)
    IN  IF nx.ok
        THEN [nodes |-> d.nodes,
              terms |-> [terms EXCEPT ![nx.ptr] = TerminalAppend(@, word, id)]]
        ELSE LET terms1  == Append(terms, HamtEmptyTerm)
                 termptr == Len(terms1)
             IN  [nodes |-> [d.nodes EXCEPT ![d.node] =
                                NodeAppend(@, HashSlot(d.hash), termptr)],
                  terms |-> [terms1 EXCEPT ![termptr] = TerminalAppend(@, word, id)]]

RECURSIVE HamtWalk(_, _, _, _)
\* the loop of Trie.Search, k iterations left: 0 when a slot is empty
HamtWalk(nodes, node, hash, k) ==
    IF k = 0 THEN node
    ELSE LET nx == nextNode(nodes, node, hash)
         IN  IF ~nx.ok THEN 0 ELSE HamtWalk(nodes, nx.ptr, HashShift(hash), k - 1)

\* Trie.Search: the Documents of key, << >> (nil) if absent
HamtSearch(nodes, terms, key) ==
    LET node == HamtWalk(nodes, 1, HashOf(key), depth - 1)
    IN  IF node = 0 THEN << >>
        ELSE IF terms[node].entries = << >> THEN << >>
        ELSE TerminalFind(terms[node], key)

HamtInit ==
    /\ hnodes = << HamtEmptyNode >>
    /\ hterms = << >>
    /\ hhist = [x \in HamtKeys \X DocIDs |-> 0]

----------------------------------------------------------------------------
(* Trigram trie (part_004, fts_trigram_trie.go)                            *)
(* Node.children is the function from the non-nil indices to the child.    *)

\* the number of Insert calls a behaviour makes
TrigramMaxInserts == 3

\* "abc", "abd", "bcd", and the keys Insert must reject: "ab", "abcd", "",
\* "Abc", "a{c" ('{' follows 'z'), "ab`" ('`' precedes 'a')
TrigramInputs ==
    { <<97, 98, 99>>, <<97, 98, 100>>, <<98, 99, 100>>,
      <<97, 98>>, <<97, 98, 99, 100>>, << >>,
      <<65, 98, 99>>, <<97, 123, 99>>, <<97, 98, 96>> }

TrigramNewNode == [docs |-> EmptyDocs, children |-> << >>]

\* trigram[i] - 'a' on bytes: the difference modulo 256
ByteIndex(c) == (c + 256 - 97) % 256

RECURSIVE TrigramInsertLoop(_, _, _, _, _)
\* the loop of Trie.Insert from position i (counted from 0) at node:
\* [heap, err]; nodes created before an invalid byte is met stay created
TrigramInsertLoop(h, node, trigram, docID, i) ==
    IF i = 3
    THEN [heap |-> [h EXCEPT ![node].docs = MapIncr(@, docID)], err |-> "nil"]
    ELSE LET index == ByteIndex(trigram[i + 1])
         IN  IF index < 0 \/ index >= 26
             THEN [heap |-> h, err |-> "invalid character in trigram"]
             ELSE IF index \in DOMAIN h[node].children
                  THEN TrigramInsertLoop(h, h[node].children[index], trigram, docID, i + 1)
                  ELSE LET id == Len(h) + 1
                           ch == h[node].children
                           h1 == [Append(h, TrigramNewNode) EXCEPT ![node].children =
                                     [x \in (DOMAIN ch) \cup {index} |->
                                         IF x = index THEN id ELSE ch[x]]]
                       IN  TrigramInsertLoop(h1, id, trigram, docID, i + 1)

\* a mutant of TrigramInsert: the length check only rejects shorter keys
TrigramInsertAtLeast3(h, trigram, docID) ==
    IF Len(trigram) < 3
    THEN [heap |-> h, err |-> "ErrInvalidTrigramSize"]
    ELSE TrigramInsertLoop(h, 1, trigram, docID, 0)

\* Trie.Insert: [heap, err]
TrigramInsert(h, trigram, docID) ==
    IF Len(trigram) # 3
    THEN [heap |-> h, err |-> "ErrInvalidTrigramSize"]
    ELSE TrigramInsertLoop(h, 1, trigram, docID, 0)

RECURSIVE TrigramSearchLoop(_, _, _, _)
TrigramSearchLoop(h, node, word, i) ==
    IF i = 3
    THEN [docs |-> h[node].docs, err |-> "nil"]
    ELSE LET index == ByteIndex(word[i + 1])
         IN  IF index < 0 \/ index >= 26
             THEN [docs |-> << >>, err |-> "invalid character in trigram"]
             ELSE IF index \notin DOMAIN h[node].children
                  THEN [docs |-> << >>, err |-> "nil"]
                  ELSE TrigramSearchLoop(h, h[node].children[index], word, i + 1)

\* a Search that, where the third child is missing, returns the postings of
\* another child of the node of the first two letters
TrigramSearchAnyThird(h, word) ==
    LET r == TrigramSearchLoop(h, 1, word, 0)
    IN  IF Len(word) # 3
        THEN [docs |-> << >>, err |-> "ErrInvalidTrigramSize"]
        ELSE IF r.err # "nil" \/ r.docs # << >> THEN r
        ELSE LET a == ByteIndex(word[1])
                 b == ByteIndex(word[2])
             IN  IF a \notin DOMAIN h[1].children THEN r
                 ELSE LET n1 == h[1].children[a]
                      IN  IF b \notin DOMAIN h[n1].children THEN r
                          ELSE LET n2 == h[n1].children[b]
                               IN  IF h[n2].children = << >> THEN r
                                   ELSE [docs |-> h[h[n2].children[Min(DOMAIN h[n2].children)]].docs,
                                         err |-> "nil"]

\* Trie.Search: [docs, err]
TrigramSearch(h, word) ==
    IF Len(word) # 3
    THEN [docs |-> << >>, err |-> "ErrInvalidTrigramSize"]
    ELSE TrigramSearchLoop(h, 1, word, 0)

TrigramInit ==
    /\ ttrie = << TrigramNewNode >>
    /\ tlast = [key |-> << >>, docID |-> << >>, err |-> "none"]
    /\ tcalls = 0
    /\ thist = [x \in TrigramInputs \X DocIDs |-> 0]

----------------------------------------------------------------------------
(* Search service (fts.go SearchService, part_002) over the trigram trie   *)
(* with TrigramInputs as its key generator                                   *)

\* the number of IndexDocument calls a behaviour makes
SearchMaxIndexed == 2

\* the largest maxResults a SearchDocuments call is given
SearchMaxResults == 1

\* the document bodies: "abc abcd", "a The bcd ab abd", "Abcs,bcd"
Contents ==
    { <<97, 98, 99, 32, 97, 98, 99, 100>>,
      <<97, 32, 84, 104, 101, 32, 98, 99, 100, 32, 97, 98, 32, 97, 98, 100>>,
      <<65, 98, 99, 115, 44, 98, 99, 100>> }

\* the queries: "abc", "bcd ab", "abcd", "a The", "abcs abd", "abc abc"
Queries ==
    { <<97, 98, 99>>,
      <<98, 99, 100, 32, 97, 98>>,
      <<97, 98, 99, 100>>,
      <<97, 32, 84, 104, 101>>,
      <<97, 98, 99, 115, 32, 97, 98, 100>>,
      <<97, 98, 99, 32, 97, 98, 99>> }

\* char >= 'A' && char <= 'Z' || char >= 'a' && char <= 'z'
IsAsciiLetter(c) == (c >= 65 /\ c <= 90) \/ (c >= 97 /\ c <= 122)

\* the number of bytes of the UTF-8 code point whose first byte is c, which
\* is what utf8.RuneLen gives for the rune that range decodes (valid UTF-8)
RuneWidth(c) == IF c < 128 THEN 1 ELSE IF c < 224 THEN 2 ELSE IF c < 240 THEN 3 ELSE 4

RECURSIVE TokenizeLoop(_, _, _, _)
\* the range loop of Tokenize at byte offset i, then the final token
TokenizeLoop(content, i, lastSplit, tokens) ==
    IF i >= Len(content)
    THEN IF Len(content) > lastSplit
         THEN Append(tokens, Drop(content, lastSplit))
         ELSE tokens
    ELSE LET char == content[i + 1]
         IN  IF IsAsciiLetter(char)
             THEN TokenizeLoop(content, i + 1, lastSplit, tokens)
             ELSE TokenizeLoop(content, i + RuneWidth(char), i + RuneWidth(char),
                               IF i - lastSplit # 0
                               THEN Append(tokens, SubSeq(content, lastSplit + 1, i))
                               ELSE tokens)

\* Tokenize: the maximal runs of ASCII letters
Tokenize(content) == TokenizeLoop(content, 0, 0, << >>)

\* snowballeng.IsStopWord on the words of the model: it compares the token as
\* it is, so "a", "the", "is", "it" are stop words and "A", "The" are not
IsStopWord(token) ==
    token \in { <<97>>, <<116, 104, 101>>, <<105, 115>>, <<105, 116>> }

\* strings.ToLower on ASCII
ToLower(token) ==
    [i \in 1..Len(token) |->
        IF token[i] >= 65 /\ token[i] <= 90 THEN token[i] + 32 ELSE token[i]]

IsVowel(c) == c \in {97, 101, 105, 111, 117, 121}

\* snowballeng.Stem(token, false) on the words of the model: the word is
\* lowercased; words of at most 2 letters and stop words are returned as they
\* are; of the Porter2 steps only 1a applies to these words (a final "s" that
\* follows neither "s" nor "u" nor "ie" is deleted when a vowel precedes the
\* letter before it)
Stem(token) ==
    LET word == ToLower(token)
        n    == Len(word)
    IN  IF n <= 2 \/ IsStopWord(word) THEN word
        ELSE IF /\ word[n] = 115
                /\ word[n - 1] \notin {115, 117}
                /\ ~(word[n - 1] = 101 /\ word[n - 2] = 105)
                /\ \E i \in 1..(n - 2) : IsVowel(word[i])
             THEN Take(word, n - 1)
             ELSE word

\* getTrigrams: the sliding windows of 3 bytes, none below 3 bytes
getTrigrams(token) ==
    IF Len(token) < 3 THEN << >>
    ELSE [i \in 1..(Len(token) - 2) |-> SubSeq(token, i, i + 2)]

\* TrigramKeys: [keys, err]
TrigramKeys(token) ==
    LET trigrams == getTrigrams(token)
    IN  IF Len(trigrams) = 0
        THEN [keys |-> << >>, err |-> "ErrInvalidTrigramSize"]
        ELSE [keys |-> trigrams, err |-> "nil"]

RECURSIVE InsertKeys(_, _, _)
\* the inner loop of IndexDocument: it returns at the first Insert error
InsertKeys(h, keys, docID) ==
    IF keys = << >> THEN [heap |-> h, err |-> "nil"]
    ELSE LET r == TrigramInsert(h, Head(keys), docID)
         IN  IF r.err # "nil"
             THEN [heap |-> r.heap, err |-> "trie: insert document while indexing"]
             ELSE InsertKeys(r.heap, Tail(keys), docID)

RECURSIVE IndexTokens(_, _, _)
\* the token loop of IndexDocument: [heap, err]
IndexTokens(h, tokens, docID) ==
    IF tokens = << >> THEN [heap |-> h, err |-> "nil"]
    ELSE IF IsStopWord(Head(tokens)) THEN IndexTokens(h, Tail(tokens), docID)
    ELSE LET kg == TrigramKeys(Stem(Head(tokens)))
         IN  IF kg.err # "nil"
             THEN [heap |-> h, err |-> "trie: index document"]
             ELSE LET r == InsertKeys(h, kg.keys, docID)
                  IN  IF r.err # "nil" THEN r
                      ELSE IndexTokens(r.heap, Tail(tokens), docID)

\* SearchService.IndexDocument: [heap, err]
IndexDocument(h, docID, content) == IndexTokens(h, Tokenize(content), docID)

\* m[k] += n on a Go map
MapAdd(m, k, n) ==
    [x \in (DOMAIN m) \cup {k} |->
        (IF x \in DOMAIN m THEN m[x] ELSE 0) + (IF x = k THEN n ELSE 0)]

RECURSIVE AddEntries(_, _, _)
\* for docID, count := range docEntries: the two maps after the entries of
\* one lookup (a sum, so the iteration order does not matter)
AddEntries(acc, docEntries, left) ==
    IF left = {} THEN acc
    ELSE LET docID == CHOOSE d \in left : TRUE
         IN  AddEntries([unique |-> MapAdd(acc.unique, docID, 1),
                         total  |-> MapAdd(acc.total, docID, docEntries[docID]),
                         err    |-> acc.err],
                        docEntries, left \ {docID})

RECURSIVE SearchKeys(_, _, _)
\* the key loop of SearchDocuments
SearchKeys(h, keys, acc) ==
    IF keys = << >> THEN acc
    ELSE LET r == TrigramSearch(h, Head(keys))
         IN  IF r.err # "nil" THEN [acc EXCEPT !.err = r.err]
             ELSE SearchKeys(h, Tail(keys), AddEntries(acc, r.docs, DOMAIN r.docs))

RECURSIVE SearchTokens(_, _, _)
\* the token loop of SearchDocuments: [unique, total, err]
SearchTokens(h, tokens, acc) ==
    IF tokens = << >> THEN acc
    ELSE IF IsStopWord(Head(tokens)) THEN SearchTokens(h, Tail(tokens), acc)
    ELSE LET kg == TrigramKeys(Stem(Head(tokens)))
         IN  IF kg.err # "nil" THEN [acc EXCEPT !.err = kg.err]
             ELSE LET a == SearchKeys(h, kg.keys, acc)
                  IN  IF a.err # "nil" THEN a
                      ELSE SearchTokens(h, Tail(tokens), a)

\* a mutant of ResultLess: ties on UniqueMatches are broken by ascending TotalMatches
ResultLessTotalAscending(a, b) ==
    IF a.UniqueMatches = b.UniqueMatches
    THEN a.TotalMatches < b.TotalMatches
    ELSE a.UniqueMatches > b.UniqueMatches

\* the less function given to sort.Slice
ResultLess(a, b) ==
    IF a.UniqueMatches = b.UniqueMatches
    THEN a.TotalMatches > b.TotalMatches
    ELSE a.UniqueMatches > b.UniqueMatches

RECURSIVE SortInsert(_, _)
\* one pass of insertion sort: x moves left while it is less than its neighbour
SortInsert(sorted, x) ==
    IF sorted # << >> /\ ResultLess(x, sorted[Len(sorted)])
    THEN Append(SortInsert(Take(sorted, Len(sorted) - 1), x), sorted[Len(sorted)])
    ELSE Append(sorted, x)

RECURSIVE SortSlice(_, _)
\* sort.Slice on a short slice: insertion sort, left to right
SortSlice(sorted, rest) ==
    IF rest = << >> THEN sorted
    ELSE SortSlice(SortInsert(sorted, Head(rest)), Tail(rest))

\* SearchService.SearchDocuments; order is the order in which the range over
\* the map docUniqueMatches yields its keys
SearchDocuments(h, query, maxResults, order) ==
    LET acc == SearchTokens(h, Tokenize(query),
                            [unique |-> << >>, total |-> << >>, err |-> "nil"])
        n          == Cardinality(DOMAIN acc.unique)
        maxResults1 == IF n < maxResults THEN n ELSE maxResults
        results    == SortSlice(<< >>,
                          [i \in 1..Len(order) |->
                              [ID |-> order[i],
                               UniqueMatches |-> acc.unique[order[i]],
                               TotalMatches |-> acc.total[order[i]]]])
        lastIndex  == IF n > maxResults1 THEN n ELSE maxResults1
    IN  IF acc.err # "nil"
        THEN [err |-> acc.err, ResultData |-> << >>, TotalResultsCount |-> 0]
        ELSE [err |-> "nil", ResultData |-> Take(results, lastIndex),
              TotalResultsCount |-> n]

\* the docIDs a query matches: the keys of docUniqueMatches
Matches(h, query) ==
    DOMAIN SearchTokens(h, Tokenize(query),
                        [unique |-> << >>, total |-> << >>, err |-> "nil"]).unique

\* the orders in which a set can be enumerated
Orders(S) ==
    { o \in [1..Cardinality(S) -> S] : \A i, j \in 1..Cardinality(S) : i # j => o[i] # o[j] }

SearchInit ==
    /\ sindex = << TrigramNewNode >>
    /\ sdone = << >>
    /\ sret = "none"
    /\ sres = [query |-> << >>, maxResults |-> 0, err |-> "none",
               ResultData |-> << >>, TotalResultsCount |-> 0]

----------------------------------------------------------------------------
(* Two indexes of one kind behind the Index interface, given the same      *)
(* inserts in different orders                                             *)

\* the number of inserts issued to the pair of indexes
CommMaxInserts == 4

Kinds == {"radix", "hamt", "trigram"}

\* the keys inserted into each kind: "a", "ab", "abc", "abd" share prefixes;
\* "liquid" and "costarring" have one hash, "eklu" and "cbaba" one terminal;
\* "abc" and "abd" share two trigram levels
CommKeys(kind) ==
    CASE kind = "radix"   -> { <<97>>, <<97, 98>>, <<97, 98, 99>>, <<97, 98, 100>> }
      [] kind = "hamt"    -> { <<108, 105, 113, 117, 105, 100>>,
                               <<99, 111, 115, 116, 97, 114, 114, 105, 110, 103>>,
                               <<101, 107, 108, 117>>, <<99, 98, 97, 98, 97>> }
      [] kind = "trigram" -> { <<97, 98, 99>>, <<97, 98, 100>> }
      [] OTHER            -> {}

\* radix.New(), hamt.New(), NewNode()
IndexNew(kind) ==
    CASE kind = "radix"   -> RadixNew
      [] kind = "hamt"    -> [nodes |-> << HamtEmptyNode >>, terms |-> << >>]
      [] kind = "trigram" -> << TrigramNewNode >>

\* Index.Insert(key, id) on an index of the kind
IndexInsert(kind, x, key, id) ==
    CASE kind = "radix"   -> RadixInsert(x, key, id)
      [] kind = "hamt"    -> HamtInsert(x.nodes, x.terms, key, id)
      [] kind = "trigram" -> TrigramInsert(x, key, id).heap

\* Index.Search(key) on an index of the kind
IndexSearch(kind, x, key) ==
    CASE kind = "radix"   -> RadixSearch(x, key)
      [] kind = "hamt"    -> HamtSearch(x.nodes, x.terms, key)
      [] kind = "trigram" -> TrigramSearch(x, key).docs

CommInit ==
    /\ ckind = "none"
    /\ cA = << >>
    /\ cB = << >>
    /\ cpend = EmptyBag
    /\ cn = 0

----------------------------------------------------------------------------
(* Key-value inverted index: KeyValueFTS.ProcessDocument run by the        *)
(* workers of the pool over one LevelDB store                              *)

\* the number of jobs main gives to the pool
KVMaxJobs == 2

\* the workers of the pool
KVWorkers == {1, 2}

\* the documents of the dump: "1" "cat dog", "2" "cat cat", "3" "The dogs"
KVDocuments ==
    { [ID |-> <<49>>, Abstract |-> <<99, 97, 116, 32, 100, 111, 103>>],
      [ID |-> <<50>>, Abstract |-> <<99, 97, 116, 32, 99, 97, 116>>],
      [ID |-> <<51>>, Abstract |-> <<84, 104, 101, 32, 100, 111, 103, 115>>] }

\* unicode.IsLetter(char) || unicode.IsNumber(char) on the ASCII range
IsLetterOrNumber(c) == IsAsciiLetter(c) \/ (c >= 48 /\ c <= 57)

RECURSIVE KVTokenizeLoop(_, _, _, _)
\* the range loop of fts_kv.Tokenize at byte offset i, then the final token
KVTokenizeLoop(content, i, lastSplit, tokens) ==
    IF i >= Len(content)
    THEN IF Len(content) - lastSplit # 0
         THEN Append(tokens, Drop(content, lastSplit))
         ELSE tokens
    ELSE LET char == content[i + 1]
         IN  IF char < 128 /\ IsLetterOrNumber(char)
             THEN KVTokenizeLoop(content, i + 1, lastSplit, tokens)
             ELSE KVTokenizeLoop(content, i + RuneWidth(char), i + 1,
                                 IF i - lastSplit # 0
                                 THEN Append(tokens, SubSeq(content, lastSplit + 1, i))
                                 ELSE tokens)

KVTokenize(content) == KVTokenizeLoop(content, 0, 0, << >>)

\* the stopWords map of fts_kv.go, on the words of the model
KVStopWords ==
    { <<97>>, <<116, 104, 101>>, <<105, 115>>, <<105, 116>>, <<97, 110>> }

\* preprocessText: Tokenize, ToLower, FilterStopWords, Stem
preprocessText(content) ==
    LET tokens == KVTokenize(content)
        lower  == [i \in 1..Len(tokens) |-> ToLower(tokens[i])]
        kept   == SelectSeq(lower, LAMBDA t : t \notin KVStopWords)
    IN  [i \in 1..Len(kept) |-> Stem(kept[i])]

RECURSIVE Itoa(_)
\* fmt %d of a count: its decimal digits
Itoa(n) == IF n < 10 THEN << 48 + n >> ELSE Append(Itoa(n \div 10), 48 + (n % 10))

\* "word:" + word
WordKey(word) == <<119, 111, 114, 100, 58>> \o word

\* "doc:" + document.ID
DocKey(id) == <<100, 111, 99, 58>> \o id

\* s.db.Get(key, nil): [data, err]
DBGet(db, key) ==
    IF key \in DOMAIN db
    THEN [data |-> db[key], err |-> "nil"]
    ELSE [data |-> << >>, err |-> "ErrNotFound"]

\* batch.Put(key, value)
BatchPut(batch, key, value) ==
    [k \in (DOMAIN batch) \cup {key} |-> IF k = key THEN value ELSE batch[k]]

\* s.db.Write(batch, nil): all puts of the batch at once
DBWrite(db, batch) ==
    [k \in (DOMAIN db) \cup (DOMAIN batch) |->
        IF k \in DOMAIN batch THEN batch[k] ELSE db[k]]

\* wordsCount[word]++ for every word
WordsCount(words) == [w \in Range(words) |-> Occurrences(words, w)]

\* IndexData that writes the comma even when the word has no list yet
IndexDataAlwaysComma(existing, id, count) ==
    existing.data \o <<44>> \o id \o <<58>> \o Itoa(count)

\* the value put for a word: the existing list, a comma, "docID:count"
IndexData(existing, id, count) ==
    LET entry == id \o <<58>> \o Itoa(count)
    IN  IF existing.err = "nil" /\ Len(existing.data) > 0
        THEN existing.data \o <<44>> \o entry
        ELSE entry

RECURSIVE SplitFrom(_, _, _, _)
\* strings.Split(s, sep) for a one-byte sep, from position i with the
\* current piece cur
SplitFrom(s, sep, i, cur) ==
    IF i > Len(s) THEN << cur >>
    ELSE IF s[i] = sep THEN << cur >> \o SplitFrom(s, sep, i + 1, << >>)
    ELSE SplitFrom(s, sep, i + 1, Append(cur, s[i]))

Split(s, sep) == SplitFrom(s, sep, 1, << >>)

\* Storage.GetWord: [entries, err]
GetWord(db, word) ==
    LET r == DBGet(db, WordKey(word))
    IN  IF r.err # "nil"
        THEN [entries |-> << >>, err |-> "word not found"]
        ELSE [entries |-> Split(r.data, 44), err |-> "nil"]

KVIdle == [pc |-> "idle", doc |-> << >>, counts |-> << >>, todo |-> {}, batch |-> << >>]

KVInit ==
    /\ kvdb = << >>
    /\ kvw = [w \in KVWorkers |-> KVIdle]
    /\ kvsent = 0
    /\ kvdone = {}

----------------------------------------------------------------------------
(* The key-value store and the KeyValueFTS service over it, one call at a  *)
(* time: ProcessDocument, DeleteDocument and SearchDocuments               *)

\* the number of ProcessDocument and DeleteDocument calls made
StoreMaxCalls == 3

\* the largest maxResults a search asks for
StoreMaxResults == 2

\* the queries: "cat", "dog cat"
StoreQueries == { <<99, 97, 116>>, <<100, 111, 103, 32, 99, 97, 116>> }

\* strings.HasPrefix(s, prefix)
HasPrefix(s, prefix) ==
    Len(s) >= Len(prefix) /\ SubSeq(s, 1, Len(prefix)) = prefix

RECURSIVE StringsJoin(_, _)
\* strings.Join(elems, sep)
StringsJoin(elems, sep) ==
    IF elems = << >> THEN << >>
    ELSE IF Len(elems) = 1 THEN elems[1]
    ELSE elems[1] \o sep \o StringsJoin(Tail(elems), sep)

RECURSIVE PutWords(_, _, _, _, _)
\* the loop over wordsCount of SaveDocumentWithIndexing: every word's Get
\* reads the store, its Put goes to the batch
PutWords(db, batch, id, counts, todo) ==
    IF todo = {} THEN batch
    ELSE LET word     == CHOOSE w \in todo : TRUE
             existing == DBGet(db, WordKey(word))
         IN  PutWords(db, BatchPut(batch, WordKey(word),
                                   IndexData(existing, id, counts[word])),
                      id, counts, todo \ {word})

\* Storage.SaveDocumentWithIndexing run alone: the store after the call
SaveDocumentWithIndexing(db, document, words) ==
    LET counts == WordsCount(words)
        batch  == PutWords(db, BatchPut(<< >>, DocKey(document.ID), document),
                           document.ID, counts, DOMAIN counts)
    IN  DBWrite(db, batch)

\* KeyValueFTS.ProcessDocument run alone
ProcessDocument(db, document) ==
    SaveDocumentWithIndexing(db, document, preprocessText(document.Abstract))

\* a leveldb.Batch that also deletes: the values it puts, the keys it deletes
NewBatch == [puts |-> << >>, dels |-> {}]

\* batch.Put(key, value) on such a batch
BatchPutValue(batch, key, value) ==
    [puts |-> BatchPut(batch.puts, key, value), dels |-> batch.dels \ {key}]

\* a Delete that puts an empty list instead of deleting the key
BatchDeleteAsEmptyPut(batch, key) ==
    [puts |-> BatchPut(batch.puts, key, << >>), dels |-> batch.dels]

\* batch.Delete(key)
BatchDelete(batch, key) ==
    [puts |-> [k \in (DOMAIN batch.puts) \ {key} |-> batch.puts[k]],
     dels |-> batch.dels \cup {key}]

\* s.db.Write(batch, nil) of such a batch: all puts and deletes at once
DBWriteBatch(db, batch) ==
    LET put == DBWrite(db, batch.puts)
    IN  [k \in (DOMAIN put) \ batch.dels |-> put[k]]

\* "word:"
WordPrefix == <<119, 111, 114, 100, 58>>

RECURSIVE DeleteScan(_, _, _, _)
\* the iterator loop of DeleteDocument over the keys not yet visited
DeleteScan(db, batch, docID, keys) ==
    IF keys = {} THEN batch
    ELSE LET key == CHOOSE k \in keys : TRUE
         IN  IF HasPrefix(key, WordPrefix)
             THEN LET entries    == Split(db[key], 44)
                      newEntries == SelectSeq(entries,
                                        LAMBDA entry : Split(entry, 58)[1] # docID)
                  IN  DeleteScan(db,
                                 IF Len(newEntries) > 0
                                 THEN BatchPutValue(batch, key, StringsJoin(newEntries, <<44>>))
                                 ELSE BatchDelete(batch, key),
                                 docID, keys \ {key})
             ELSE DeleteScan(db, batch, docID, keys \ {key})

\* Storage.DeleteDocument run alone: the store after the call
DeleteDocument(db, docID) ==
    DBWriteBatch(db, DeleteScan(db, BatchDelete(NewBatch, DocKey(docID)), docID, DOMAIN db))

RECURSIVE AtoiDigits(_, _)
\* the decimal value of the digits of s after acc
AtoiDigits(s, acc) ==
    IF s = << >> THEN acc ELSE AtoiDigits(Tail(s), 10 * acc + (Head(s) - 48))

\* count, _ := strconv.Atoi(s) on unsigned input: 0 when s is not a number
Atoi(s) ==
    IF s # << >> /\ \A i \in 1..Len(s) : s[i] >= 48 /\ s[i] <= 57
    THEN AtoiDigits(s, 0)
    ELSE 0

RECURSIVE SplitAll(_)
\* the pairs of all docEntries: strings.Split(docEntry, ",") of each
SplitAll(docEntries) ==
    IF docEntries = << >> THEN << >>
    ELSE Split(Head(docEntries), 44) \o SplitAll(Tail(docEntries))

RECURSIVE TokenPairs(_, _)
\* the pairs the lookups of the tokens visit; a token whose GetWord fails
\* gives none
TokenPairs(db, tokens) ==
    IF tokens = << >> THEN << >>
    ELSE LET got == GetWord(db, Head(tokens))
         IN  (IF got.err # "nil" THEN << >> ELSE SplitAll(got.entries))
             \o TokenPairs(db, Tail(tokens))

RECURSIVE CountPairs(_, _)
\* docFrequency and wordMatchCount after the pairs: a pair that does not
\* split into two parts is skipped
CountPairs(pairs, acc) ==
    IF pairs = << >> THEN acc
    ELSE LET parts == Split(Head(pairs), 58)
         IN  CountPairs(Tail(pairs),
                        IF Len(parts) # 2 THEN acc
                        ELSE [docFrequency   |-> MapAdd(acc.docFrequency, parts[1], Atoi(parts[2])),
                              wordMatchCount |-> MapAdd(acc.wordMatchCount, parts[1], 1)])

\* docFrequency and wordMatchCount of a query once all lookups are done
QueryCounts(db, query) ==
    CountPairs(TokenPairs(db, preprocessText(query)),
               [docFrequency |-> << >>, wordMatchCount |-> << >>])

\* the sorted docMatches of KeyValueFTS.SearchDocuments; order is the order
\* in which the range over docFrequency yields its keys
DocMatches(db, query, order) ==
    LET counts   == QueryCounts(db, query)
        unsorted == [i \in 1..Len(order) |->
                        [ID |-> order[i],
                         UniqueMatches |-> counts.wordMatchCount[order[i]],
                         TotalMatches  |-> counts.docFrequency[order[i]]]]
    IN  SortSlice(<< >>, unsorted)

\* the documents a query matches: the keys of docFrequency
StoreMatches(db, query) == DOMAIN QueryCounts(db, query).docFrequency

\* Storage.GetDocument: [doc, err]; failing are the docIDs whose s.db.Get
\* returns an error other than ErrNotFound; found FALSE is the nil pointer
\* returned with a nil error when the key is not found
GetDocument(db, docID, failing) ==
    IF docID \in failing THEN [found |-> FALSE, err |-> "error"]
    ELSE IF DocKey(docID) \notin DOMAIN db THEN [found |-> FALSE, err |-> "nil"]
    ELSE [found |-> TRUE, err |-> "nil"]

RECURSIVE FetchDocuments(_, _, _, _)
\* the loop that fills resultDocs[i].Document from position i on: an error
\* returns it, a nil doc is dereferenced
FetchDocuments(db, resultDocs, i, failing) ==
    IF i > Len(resultDocs) THEN [outcome |-> "ok", ResultData |-> resultDocs]
    ELSE LET got == GetDocument(db, resultDocs[i].ID, failing)
         IN  IF got.err # "nil" THEN [outcome |-> "error", ResultData |-> << >>]
             ELSE IF ~got.found THEN [outcome |-> "panic", ResultData |-> << >>]
             ELSE FetchDocuments(db, resultDocs, i + 1, failing)

\* KeyValueFTS.SearchDocuments: [outcome, ResultData, TotalResultsCount]
StoreSearchDocuments(db, query, maxResults, order, failing) ==
    LET docMatches == DocMatches(db, query, order)
        resultDocs == Take(docMatches, Min({Len(docMatches), maxResults}))
        fetched    == FetchDocuments(db, resultDocs, 1, failing)
    IN  [outcome |-> fetched.outcome,
         ResultData |-> fetched.ResultData,
         TotalResultsCount |-> IF fetched.outcome = "ok" THEN Len(docMatches) ELSE 0]

StoreInit ==
    /\ stdb = << >>
    /\ stlast = [op |-> "none", n |-> 0]

----------------------------------------------------------------------------
(* KeyValueFTS.SearchDocuments with its per-token lookup goroutines, over  *)
(* a store that indexing has filled                                        *)

\* the number of ProcessDocument calls that filled the store
KSMaxIndexed == 2

\* the queries: "cat", "dog cat", "cat cat"
KSQueries ==
    { <<99, 97, 116>>, <<100, 111, 103, 32, 99, 97, 116>>,
      <<99, 97, 116, 32, 99, 97, 116>> }

RECURSIVE StoresAfter(_)
\* the stores that up to n ProcessDocument calls, one at a time, leave
StoresAfter(n) ==
    IF n = 0 THEN { << >> }
    ELSE LET prev == StoresAfter(n - 1)
         IN  prev \cup { ProcessDocument(db, d) : db \in prev, d \in KVDocuments }

\* a mutex that never makes a goroutine wait
MuFreeAlways(mu) == TRUE

\* mu.Lock() can return
MuFree(mu) == ~mu

\* a goroutine before go func(token) has run its first statement
KSGoroutine(token) ==
    [pc |-> "get", token |-> token, pairs |-> << >>, localMap |-> << >>,
     docID |-> << >>, read |-> 0, base |-> << >>]

\* m[k] = v
MapSet(m, k, v) == [x \in (DOMAIN m) \cup {k} |-> IF x = k THEN v ELSE m[x]]

\* m[k] of a map[string]int: 0 for a missing key
MapGet(m, k) == IF k \in DOMAIN m THEN m[k] ELSE 0

\* for docID, count := range localMap { docFrequency[docID] += count }
MergeCounts(docFrequency, localMap) ==
    [x \in (DOMAIN docFrequency) \cup (DOMAIN localMap) |->
        MapGet(docFrequency, x) + MapGet(localMap, x)]

KSInit ==
    /\ gdb = << >>
    /\ gquery = << >>
    /\ ggo = << >>
    /\ gfreq = << >>
    /\ gmatch = << >>
    /\ gmu = FALSE
    /\ gres = [called |-> FALSE]

----------------------------------------------------------------------------
(* The result of radix Search as an object of its own: a caller keeps       *)
(* results, writes to them, and goes on calling Insert and Search           *)

\* the number of Insert and Search calls and of writes to held results
SnapMaxCalls == 3

\* the count a caller writes into a result it holds
SnapWritten == 7

RECURSIVE RadixFindFrom(_, _, _)
\* the loop of Trie.Search: the terminal node it ends at, 0 when it
\* returns nil
RadixFindFrom(h, current, rest) ==
    LET n == RadixNext(h, current, rest)
    IN  IF ~n.matched THEN 0
        ELSE IF n.exact THEN n.node
        ELSE RadixFindFrom(h, n.node, n.rest)

\* a result that is the docs map of the node itself, not a copy
ResultAliasingNode(node, docs) == [isnil |-> FALSE, node |-> node, val |-> << >>]

\* what collectDocs returns for the docs of a node: a new collection that
\* holds a copy of the postings (node 0: no node's map)
ResultCopy(node, docs) == [isnil |-> FALSE, node |-> 0, val |-> collectDocs(docs)]

\* Trie.Search as the caller receives it: nil, or the object collectDocs made
RadixSearchObject(h, word) ==
    LET node == RadixFindFrom(h, 1, word)
    IN  IF node = 0 THEN [isnil |-> TRUE, node |-> 0, val |-> << >>]
        ELSE ResultCopy(node, h[node].docs)

\* the contents of a result object
ResultContents(h, r) == IF r.node # 0 THEN h[r.node].docs ELSE r.val

SnapInit ==
    /\ snheap = RadixNew
    /\ snpure = RadixNew
    /\ snheld = << >>
    /\ sncalls = 0

----------------------------------------------------------------------------
(* The arena radix trie of radix_hash_trie.go (nodes in one slice, children *)
(* as indices, counts in a uint16) next to the pointer radix trie            *)

\* the number of Insert calls, or runs of repeated Insert calls, made
ArenaMaxSteps == 3

\* the length of a run of repeated Insert(word, docID) calls: one short of
\* the 65536 values of a uint16
ArenaRun == 65535

\* the keys: "", "ab", "abc", "abd"
ArenaKeys == { << >>, <<97, 98>>, <<97, 98, 99>>, <<97, 98, 100>> }

\* the value of a uint16 after an addition
Uint16(n) == n % 65536

\* the Node that newNode appends
ArenaNode(prefix) ==
    [prefix |-> prefix, terminal |-> FALSE, docs |-> << >>, children |-> << >>]

\* NewTrie: the root is the first node
ArenaNew == << ArenaNode(<< >>) >>

\* the position in node.docs of the entry of docID, 0 when it has none
ArenaDocAt(docs, docID) ==
    IF \E i \in 1..Len(docs) : docs[i].docID = docID
    THEN Min({ i \in 1..Len(docs) : docs[i].docID = docID })
    ELSE 0

\* Trie.addDoc: count++ on a uint16, or a new entry with count 1
ArenaAddDoc(h, nodeIdx, docID) ==
    LET i == ArenaDocAt(h[nodeIdx].docs, docID)
    IN  IF i # 0
        THEN [h EXCEPT ![nodeIdx].docs[i].count = Uint16(@ + 1)]
        ELSE [h EXCEPT ![nodeIdx].docs = Append(@, [docID |-> docID, count |-> 1])]

\* the position of the first child of current whose prefix shares a first
\* byte with rest (the others are passed by continue), 0 when there is none
ArenaFirstHit(h, current, rest) ==
    LET hits == { i \in 1..Len(h[current].children) :
                    lcp(rest, h[h[current].children[i]].prefix) # 0 }
    IN  IF hits = {} THEN 0 ELSE Min(hits)

\* the split branch of Insert at child i of current with common length p
ArenaSplit(h, current, i, p, rest, docID) ==
    LET child       == h[current].children[i]
        common      == Take(h[child].prefix, p)
        childSuffix == Drop(h[child].prefix, p)
        newSuffix   == Drop(rest, p)
        middle      == Len(h) + 1
        h1 == Append(h, ArenaNode(common))
        h2 == [h1 EXCEPT ![child].prefix = childSuffix]
        h3 == [h2 EXCEPT ![middle].children = Append(@, child)]
        h4 == [h3 EXCEPT ![current].children[i] = middle]
    IN  IF newSuffix # << >>
        THEN LET newNodeIdx == Len(h4) + 1
                 h5 == Append(h4, [ArenaNode(newSuffix) EXCEPT !.terminal = TRUE])
                 h6 == ArenaAddDoc(h5, newNodeIdx, docID)
             IN  [h6 EXCEPT ![middle].children = Append(@, newNodeIdx)]
        ELSE ArenaAddDoc([h4 EXCEPT ![middle].terminal = TRUE], middle, docID)

RECURSIVE ArenaInsertFrom(_, _, _, _)
\* the outer loop of Insert at node current with rest left
ArenaInsertFrom(h, current, rest, docID) ==
    LET i == ArenaFirstHit(h, current, rest)
    IN  IF i = 0
        THEN LET newNodeIdx == Len(h) + 1
                 h1 == Append(h, [ArenaNode(rest) EXCEPT !.terminal = TRUE])
                 h2 == ArenaAddDoc(h1, newNodeIdx, docID)
             IN  [h2 EXCEPT ![current].children = Append(@, newNodeIdx)]
        ELSE LET child == h[current].children[i]
                 p     == lcp(rest, h[child].prefix)
             IN  IF p = Len(h[child].prefix)
                 THEN IF Drop(rest, p) = << >>
                      THEN ArenaAddDoc([h EXCEPT ![child].terminal = TRUE], child, docID)
                      ELSE ArenaInsertFrom(h, child, Drop(rest, p), docID)
                 ELSE ArenaSplit(h, current, i, p, rest, docID)

\* Trie.Insert of radix_hash_trie.go
ArenaInsert(h, word, docID) == ArenaInsertFrom(h, 1, word, docID)

\* Trie.next of radix_hash_trie.go; node 0 is the code's "no node"
ArenaNext(h, current, rest) ==
    LET i    == ArenaFirstHit(h, current, rest)
        none == [node |-> 0, rest |-> << >>, matched |-> FALSE, exact |-> FALSE]
    IN  IF i = 0 THEN none
        ELSE LET child == h[current].children[i]
                 p     == lcp(rest, h[child].prefix)
             IN  IF p = Len(rest)
                 THEN IF h[child].terminal
                      THEN [node |-> child, rest |-> << >>, matched |-> TRUE, exact |-> TRUE]
                      ELSE none
                 ELSE IF p = Len(h[child].prefix)
                      THEN [node |-> child, rest |-> Drop(rest, p), matched |-> TRUE, exact |-> FALSE]
                      ELSE none

RECURSIVE ArenaFindFrom(_, _, _)
\* the loop of Search: the node it collects the docs of, 0 when it returns nil
ArenaFindFrom(h, current, rest) ==
    LET n == ArenaNext(h, current, rest)
    IN  IF n.node = 0 \/ ~n.matched THEN 0
        ELSE IF n.exact THEN n.node
        ELSE ArenaFindFrom(h, n.node, n.rest)

\* Trie.collectDocs: result[d.docID] = int(d.count) for every entry
ArenaCollectDocs(docs) ==
    [id \in { docs[i].docID : i \in 1..Len(docs) } |->
        docs[ArenaDocAt(docs, id)].count]

\* Trie.Search of radix_hash_trie.go: nil is the empty map
ArenaSearch(h, word) ==
    LET node == ArenaFindFrom(h, 1, word)
    IN  IF node = 0 THEN << >> ELSE ArenaCollectDocs(h[node].docs)

\* n Insert(word, docID) calls in a row on the arena trie, word not empty:
\* the first builds the path, each later one walks it to the same terminal
\* node and runs addDoc there
ArenaInsertTimes(h, word, docID, n) ==
    LET h1   == ArenaInsert(h, word, docID)
        node == ArenaFindFrom(h1, 1, word)
        i    == ArenaDocAt(h1[node].docs, docID)
    IN  IF n = 1 THEN h1
        ELSE [h1 EXCEPT ![node].docs[i].count = Uint16(@ + (n - 1))]

\* n Insert(word, docID) calls in a row on the pointer trie, word not empty
RadixInsertTimes(h, word, docID, n) ==
    LET h1   == RadixInsert(h, word, docID)
        node == RadixFindFrom(h1, 1, word)
    IN  IF n = 1 THEN h1
        ELSE [h1 EXCEPT ![node].docs[docID] = @ + (n - 1)]

ArenaInit ==
    /\ aptr = RadixNew
    /\ aarena = ArenaNew
    /\ ahist = [x \in ArenaKeys \X DocIDs |-> 0]
    /\ asteps = 0

----------------------------------------------------------------------------
(* The batching writer of workers/job.go: BatchDocument sends documents on  *)
(* s.writeChan, writeWorker collects them in a batch and flushes it,        *)
(* StopWorkers closes the channel and waits                                 *)

\* the number of documents BatchDocument is called with
BatcherMaxDocs == 4

\* bufferSize, 1000 in the code, scaled down
BatcherBufferSize == 2

\* the capacity of s.writeChan: bufferSize*2
BatcherChanCap == BatcherBufferSize * 2

\* batch.Put("doc:"+doc.ID, data) for the documents of a batch, then
\* s.db.Write(batch, nil): a later Put of a key replaces an earlier one
BatcherWrite(db, batch) ==
    LET keys == { DocKey(batch[i].ID) : i \in 1..Len(batch) }
        last(key) == CHOOSE i \in 1..Len(batch) :
                        /\ DocKey(batch[i].ID) = key
                        /\ \A j \in 1..Len(batch) : DocKey(batch[j].ID) = key => j <= i
    IN  [k \in (DOMAIN db) \cup keys |->
            IF k \in keys THEN batch[last(k)].ID ELSE db[k]]

\* the write counts after a batch has been written
BatcherCounted(writes, batch) ==
    [n \in DOMAIN writes |->
        writes[n] + Cardinality({ i \in 1..Len(batch) : batch[i].n = n })]

\* a worker that returns on the closed channel without writing its batch
FlushOnCloseSkipped(state, batch) == state

\* the flush of writeWorker when the channel is closed: s.db.Write(batch, nil)
FlushOnClose(state, batch) ==
    [db |-> BatcherWrite(state.db, batch), writes |-> BatcherCounted(state.writes, batch)]

BatcherInit ==
    /\ bchan = << >>
    /\ bclosed = FALSE
    /\ bbatch = << >>
    /\ bdb = << >>
    /\ bwrites = [n \in 1..BatcherMaxDocs |-> 0]
    /\ bacc = << >>
    /\ bworker = "run"
    /\ bstop = "idle"
    /\ bflushes = {}

----------------------------------------------------------------------------
(* The worker pool of part_010 (AddJob, Run, worker) and the driver of      *)
(* part_021 that hands it one job per document                              *)

\* the number of documents the driver has jobs for
PoolMaxJobs == 3

\* the workers Run starts (runtime.NumCPU() * 2 in the driver)
PoolWorkers == {1, 2}

\* a worker at the select of its loop
PoolIdle == [pc |-> "select", job |-> 0]

\* whether the select of a worker can return it from the loop: ctx.Done()
\* is ready, or the receive reports the jobs channel closed
PoolCanReturn(cancelled, closed) == cancelled \/ closed

PoolInit ==
    /\ pnext = 1
    /\ pdrv = "adding"
    /\ pwork = [w \in PoolWorkers |-> PoolIdle]
    /\ pctx = FALSE
    /\ pclosed = FALSE
    /\ pfinished = {}
    /\ patreport = {}

----------------------------------------------------------------------------
(* The two Tokenize functions (fts_kv.go, fts.go) on inputs built one code *)
(* point at a time                                                          *)

\* the number of code points of an input
TokMaxRunes == 4

\* the code points of the inputs as UTF-8: 'a', 'B', '1', ' ' and the em
\* dash U+2014, a separator of three bytes
TokRunes == { <<97>>, <<66>>, <<49>>, <<32>>, <<226, 128, 148>> }

RECURSIVE Concat(_)
\* the string of a sequence of code points
Concat(runes) == IF runes = << >> THEN << >> ELSE Head(runes) \o Concat(Tail(runes))

\* both functions on one input
TokenizeBoth(content) == [kv |-> KVTokenize(content), fts |-> Tokenize(content)]

TokInit ==
    /\ tkrunes = << >>
    /\ tktokens = TokenizeBoth(<< >>)

----------------------------------------------------------------------------
(* Pointer HAMT with bitmap-indexed terminals (ham_trie.go). Nodes and     *)
(* Terminals live in two heaps; a bitmap is the set of its set bits.        *)

\* the number of Insert calls a behaviour makes
HamMaxInserts == 3

\* "a", "b", and "liquid", "costarring", whose 32-bit hashes are equal
HamKeys ==
    { <<97>>, <<98>>,
      <<108, 105, 113, 117, 105, 100>>,
      <<99, 111, 115, 116, 97, 114, 114, 105, 110, 103>> }

\* bits of the hash used per level
shiftBits == 5

\* the level whose children are Terminals
HamMaxLevel == 7

RECURSIVE HashShiftBy(_, _)
\* hash >> (level * shiftBits): 0 once all 32 bits are shifted out
HashShiftBy(hash, level) ==
    IF level = 0 THEN hash ELSE HashShiftBy(HashShift(hash), level - 1)

\* nextNode of ham_trie.go: idx, pos and whether the slot is occupied
HamNextNode(n, hash, level) ==
    LET idx == HashSlot(HashShiftBy(hash, level))
    IN  [idx |-> idx, pos |-> OnesBelow(n.bitmap, idx), found |-> idx \in n.bitmap]

\* lookupTerminalEntry: the slot of the two low bits of the hash
lookupTerminalEntry(t, hash) ==
    LET idx == hash.lo % 4
    IN  [idx |-> idx, pos |-> OnesBelow(t.bitmap, idx), found |-> idx \in t.bitmap]

\* addDoc of ham_trie.go on a slice of [docID, count], count a uint16
HamAddDoc(docs, docID) ==
    IF \E i \in 1..Len(docs) : docs[i].docID = docID
    THEN LET i == Min({ j \in 1..Len(docs) : docs[j].docID = docID })
         IN  [docs EXCEPT ![i].count = Uint16(@ + 1)]
    ELSE Append(docs, [docID |-> docID, count |-> 1])

\* the fallback loop of insertIntoTerminal and the append after it
HamFallback(entries, key, docID) ==
    IF \E i \in 1..Len(entries) : entries[i].key = key
    THEN LET i == Min({ j \in 1..Len(entries) : entries[j].key = key })
         IN  [entries EXCEPT ![i].docs = HamAddDoc(@, docID)]
    ELSE Append(entries, [key |-> key, docs |-> << [docID |-> docID, count |-> 1] >>])

\* insertIntoTerminal: after addDoc on the entry of the slot the code does
\* not return, it goes on to the fallback loop
insertIntoTerminal(t, hash, key, docID) ==
    LET e == lookupTerminalEntry(t, hash)
    IN  IF ~e.found
        THEN [bitmap  |-> t.bitmap \cup {e.idx},
              entries |-> SliceInsert(t.entries, e.pos,
                              [key |-> key, docs |-> << [docID |-> docID, count |-> 1] >>])]
        ELSE LET slot == IF t.entries[e.pos + 1].key = key
                         THEN [t.entries EXCEPT ![e.pos + 1].docs = HamAddDoc(@, docID)]
                         ELSE t.entries
             IN  [bitmap |-> t.bitmap, entries |-> HamFallback(slot, key, docID)]

\* &Terminal{}
HamEmptyTerm == [bitmap |-> {}, entries |-> << >>]

RECURSIVE insertNode(_, _, _, _, _, _, _)
\* insertNode at Node n: [nodes, terms] after it
insertNode(nodes, terms, n, hash, key, docID, level) ==
    LET nx == HamNextNode(nodes[n], hash, level)
    IN  IF level = HamMaxLevel
        THEN IF ~nx.found
             THEN LET term == Len(terms) + 1
                  IN  [nodes |-> [nodes EXCEPT ![n] =
                                    [bitmap |-> @.bitmap \cup {nx.idx},
                                     children |-> SliceInsert(@.children, nx.pos, term)]],
                       terms |-> Append(terms,
                                    insertIntoTerminal(HamEmptyTerm, hash, key, docID))]
             ELSE [nodes |-> nodes,
                   terms |-> [terms EXCEPT ![nodes[n].children[nx.pos + 1]] =
                                insertIntoTerminal(@, hash, key, docID)]]
        ELSE IF ~nx.found
             THEN LET newChild == Len(nodes) + 1
                      nodes1   == [Append(nodes, HamtEmptyNode) EXCEPT ![n] =
                                     [bitmap |-> @.bitmap \cup {nx.idx},
                                      children |-> SliceInsert(@.children, nx.pos, newChild)]]
                  IN  insertNode(nodes1, terms, newChild, hash, key, docID, level + 1)
             ELSE insertNode(nodes, terms, nodes[n].children[nx.pos + 1],
                             hash, key, docID, level + 1)

\* Trie.Insert of ham_trie.go
HamInsert(nodes, terms, word, docID) ==
    insertNode(nodes, terms, 1, HashOf(word), word, docID, 0)

\* collectDocs of ham_trie.go: docID -> int(count)
HamCollectDocs(docs) ==
    [d \in { docs[i].docID : i \in 1..Len(docs) } |->
        LET at == { i \in 1..Len(docs) : docs[i].docID = d }
        IN  docs[CHOOSE i \in at : \A j \in at : j <= i].count]

\* searchTerminal: nil is << >>
searchTerminal(t, hash, key) ==
    LET e == lookupTerminalEntry(t, hash)
    IN  IF e.found /\ t.entries[e.pos + 1].key = key
        THEN HamCollectDocs(t.entries[e.pos + 1].docs)
        ELSE << >>

RECURSIVE HamSearchFrom(_, _, _, _, _, _)
\* the loop of Trie.Search of ham_trie.go from level on
HamSearchFrom(nodes, terms, n, hash, word, level) ==
    LET nx == HamNextNode(nodes[n], hash, level)
    IN  IF ~nx.found THEN << >>
        ELSE IF level = HamMaxLevel
             THEN searchTerminal(terms[nodes[n].children[nx.pos + 1]], hash, word)
             ELSE HamSearchFrom(nodes, terms, nodes[n].children[nx.pos + 1],
                                hash, word, level + 1)

\* Trie.Search of ham_trie.go
HamSearch(nodes, terms, word) == HamSearchFrom(nodes, terms, 1, HashOf(word), word, 0)

HamInit ==
    /\ hpnodes = << HamtEmptyNode >>
    /\ hpterms = << >>
    /\ hphist = [x \in HamKeys \X DocIDs |-> 0]

----------------------------------------------------------------------------
(* Leaf-compressed HAMT (part_003): a child of a Node is a Node, a Leaf or *)
(* a CollisionNode. One heap holds all three; a pointer is an index.        *)

\* the number of Insert calls a behaviour makes
LeafMaxInserts == 3

\* "a" and "ba" (same slot at level 0 only), "eklu" and "cbaba" (same slot
\* at levels 0 to 5), "liquid" and "costarring" (equal hashes)
LeafKeys ==
    { <<97>>, <<98, 97>>,
      <<101, 107, 108, 117>>, <<99, 98, 97, 98, 97>>,
      <<108, 105, 113, 117, 105, 100>>,
      <<99, 111, 115, 116, 97, 114, 114, 105, 110, 103>> }

\* maxLevel = hashBits / shiftBits
LeafMaxLevel == 32 \div shiftBits

\* the hash field of an object that has none
NoHash == [hi |-> 0, lo |-> 0]

\* &Node{bitmap, children}
LeafNode(bitmap, children) ==
    [kind |-> "Node", bitmap |-> bitmap, children |-> children,
     hash |-> NoHash, key |-> << >>, docs |-> << >>]

\* &Leaf{hash, key, []DocEntry{{docID, 1}}}
LeafNew(hash, key, docID) ==
    [kind |-> "Leaf", bitmap |-> {}, children |-> << >>,
     hash |-> hash, key |-> key, docs |-> << [docID |-> docID, count |-> 1] >>]

\* &CollisionNode{hash, leaves}: the leaves are in children
CollisionNode(hash, leaves) ==
    [kind |-> "CollisionNode", bitmap |-> {}, children |-> leaves,
     hash |-> hash, key |-> << >>, docs |-> << >>]

\* bitpos: the slot of hash at level
bitpos(hash, level) == HashSlot(HashShiftBy(hash, level))

\* childIndex, the mask given by its bit
childIndex(bitmap, idx) == OnesBelow(bitmap, idx)

RECURSIVE splitLeaf(_, _, _, _, _, _, _)
\* the loop of splitLeaf with node the Node it fills: [heap, node], node
\* being the Node the function returns, that is the one filled last
splitLeaf(h, node, existing, hash, key, docID, level) ==
    LET idx1 == bitpos(h[existing].hash, level)
        idx2 == bitpos(hash, level)
    IN  IF idx1 # idx2 \/ level >= LeafMaxLevel
        THEN LET leaf == Len(h) + 1
                 h1   == Append(h, LeafNew(hash, key, docID))
             IN  [heap |-> [h1 EXCEPT ![node] =
                              LeafNode({idx1, idx2},
                                       IF idx1 < idx2 THEN <<existing, leaf>>
                                                      ELSE <<leaf, existing>>)],
                  node |-> node]
        ELSE LET child == Len(h) + 1
                 h1    == [Append(h, LeafNode({}, << >>)) EXCEPT ![node] =
                              LeafNode({idx1}, <<child>>)]
             IN  splitLeaf(h1, child, existing, hash, key, docID, level + 1)

\* the case *CollisionNode of insertNode
LeafInsertCollision(h, c, hash, key, docID) ==
    LET leaves == h[c].children
        hits   == { i \in 1..Len(leaves) : h[leaves[i]].key = key }
    IN  IF hits # {}
        THEN [h EXCEPT ![leaves[Min(hits)]].docs = HamAddDoc(@, docID)]
        ELSE [Append(h, LeafNew(hash, key, docID)) EXCEPT
                 ![c].children = Append(@, Len(h) + 1)]

RECURSIVE LeafInsertNode(_, _, _, _, _, _)
\* insertNode of part_003 at Node n: the heap after it
LeafInsertNode(h, n, hash, key, docID, level) ==
    LET idx == bitpos(hash, level)
        pos == childIndex(h[n].bitmap, idx)
    IN  IF idx \notin h[n].bitmap
        THEN [Append(h, LeafNew(hash, key, docID)) EXCEPT ![n] =
                 LeafNode(@.bitmap \cup {idx}, SliceInsert(@.children, pos, Len(h) + 1))]
        ELSE LET c == h[n].children[pos + 1]
             IN  CASE h[c].kind = "Leaf" ->
                        IF h[c].key = key
                        THEN [h EXCEPT ![c].docs = HamAddDoc(@, docID)]
                        ELSE IF h[c].hash = hash
                        THEN LET h1 == Append(h, LeafNew(hash, key, docID))
                                 h2 == Append(h1, CollisionNode(hash, <<c, Len(h1)>>))
                             IN  [h2 EXCEPT ![n].children[pos + 1] = Len(h2)]
                        ELSE LET h1 == Append(h, LeafNode({}, << >>))
                                 r  == splitLeaf(h1, Len(h1), c, hash, key, docID, level + 1)
                             IN  [r.heap EXCEPT ![n].children[pos + 1] = r.node]
                   [] h[c].kind = "CollisionNode" ->
                        LeafInsertCollision(h, c, hash, key, docID)
                   [] h[c].kind = "Node" ->
                        LeafInsertNode(h, c, hash, key, docID, level + 1)

\* Trie.Insert of part_003
LeafInsert(h, word, docID) == LeafInsertNode(h, 1, HashOf(word), word, docID, 0)

RECURSIVE LeafSearchFrom(_, _, _, _, _)
\* the loop of Trie.Search of part_003 from level on: its switch has the
\* cases *Leaf and *Node; on a *CollisionNode the loop goes on at the same
\* node with the next level
LeafSearchFrom(h, node, hash, word, level) ==
    IF level > LeafMaxLevel THEN << >>
    ELSE LET idx == bitpos(hash, level)
         IN  IF idx \notin h[node].bitmap THEN << >>
             ELSE LET c == h[node].children[childIndex(h[node].bitmap, idx) + 1]
                  IN  CASE h[c].kind = "Leaf" ->
                             IF h[c].key # word THEN << >> ELSE HamCollectDocs(h[c].docs)
                        [] h[c].kind = "Node" ->
                             LeafSearchFrom(h, c, hash, word, level + 1)
                        [] h[c].kind = "CollisionNode" ->
                             LeafSearchFrom(h, node, hash, word, level + 1)

\* Trie.Search of part_003
LeafSearch(h, word) == LeafSearchFrom(h, 1, HashOf(word), word, 0)

LeafInit ==
    /\ lfheap = << LeafNode({}, << >>) >>
    /\ lfhist = [x \in LeafKeys \X DocIDs |-> 0]

----------------------------------------------------------------------------
(* Arena HAMT with terminal buckets (part_006): the Nodes are those of     *)
(* hamt.go, a Terminal is a bitmap over the last two bits of the hash and   *)
(* one bucket of entries per set bit.                                       *)

\* the number of Insert calls a behaviour makes
BucketMaxInserts == 3

RECURSIVE BucketAddLoop(_, _, _, _)
\* the range loop of bucket.add from entry i on: every entry of the word
\* has the document added; the loop has no return
BucketAddLoop(b, i, word, id) ==
    IF i > Len(b) THEN b
    ELSE BucketAddLoop(IF b[i].key = word
                       THEN [b EXCEPT ![i].docs = DocumentsAdd(@, id)]
                       ELSE b,
                       i + 1, word, id)

\* bucket.add: the loop, then the append of a new entry for the word
bucketAdd(b, word, id) ==
    Append(BucketAddLoop(b, 1, word, id),
           [key |-> word, docs |-> DocumentsAdd(<< >>, id)])

\* Terminal.Append of part_006
BucketTerminalAppend(t, idx, word, id) ==
    LET index == OnesBelow(t.bitmap, idx)
        bucks  == IF idx \notin t.bitmap
                  THEN SliceInsert(t.bucks, index, << >>)
                  ELSE t.bucks
    IN  [bitmap |-> t.bitmap \cup {idx},
         bucks  |-> [bucks EXCEPT ![index + 1] = bucketAdd(@, word, id)]]

\* Terminal{}
BucketEmptyTerm == [bitmap |-> {}, bucks |-> << >>]

\* Trie.Insert of part_006: [nodes, terms] after Insert(word, id)
BucketInsert(nodes, terms, word, id) ==
    LET d   == HamtDescend(nodes, 1, HashOf(word), depth - 2)
        nx  == nextNode(d.nodes, d.node, d.hash)
        idx == HashShift(d.hash).lo
    IN  IF nx.ok
        THEN [nodes |-> d.nodes,
              terms |-> [terms EXCEPT ![nx.ptr] = BucketTerminalAppend(@, idx, word, id)]]
        ELSE LET terms1  == Append(terms, BucketEmptyTerm)
                 termptr == Len(terms1)
             IN  [nodes |-> [d.nodes EXCEPT ![d.node] =
                                NodeAppend(@, HashSlot(d.hash), termptr)],
                  terms |-> [terms1 EXCEPT ![termptr] =
                                BucketTerminalAppend(@, idx, word, id)]]

BucketInit ==
    /\ bknodes = << HamtEmptyNode >>
    /\ bkterms = << >>
    /\ bkcalls = 0

----------------------------------------------------------------------------
(* What Search hands out in the trigram trie (part_004) and in the arena   *)
(* HAMT (hamt.go): the posting map of the node, and the docs slice of the   *)
(* entry. A held result is a reference to that map, or to the backing       *)
(* array of that slice.                                                     *)

\* the number of Insert and Search calls a behaviour makes
AliasMaxCalls == 3

\* "abc", "abd"
AliasTrigrams == { <<97, 98, 99>>, <<97, 98, 100>> }

\* "a", "b"
AliasKeys == { <<97>>, <<98>> }

RECURSIVE TrigramNodeLoop(_, _, _, _)
\* the loop of Trie.Search of a valid key: the node whose docs map the call
\* returns, 0 where it returns nil
TrigramNodeLoop(h, node, word, i) ==
    IF i = 3 THEN node
    ELSE LET index == ByteIndex(word[i + 1])
         IN  IF index \notin DOMAIN h[node].children THEN 0
             ELSE TrigramNodeLoop(h, h[node].children[index], word, i + 1)

\* whether Documents.Add(id) on the docs of an entry gives them a new
\* backing array: the id is new, and the slice, which is as long as its
\* array when it holds one document (Documents{...} of Terminal.Append),
\* is reallocated by append
DocsReallocated(docs, id) ==
    /\ docs # << >>
    /\ \A i \in 1..Len(docs) : docs[i].ID # id

\* a caller that holds no result
HeldNone ==
    [kind |-> "none", key |-> << >>, node |-> 0, gen |-> 0, isnil |-> TRUE, seen |-> << >>]

\* what the caller reads through the result it holds: the map of the node,
\* or the array of the slice while the entry still uses that array
HeldNow(trie, nodes, terms, gen, held) ==
    IF held.isnil THEN << >>
    ELSE IF held.kind = "trigram" THEN trie[held.node].docs
    ELSE IF gen[held.key] = held.gen THEN HamtSearch(nodes, terms, held.key)
    ELSE held.seen

AliasInit ==
    /\ altrie = << TrigramNewNode >>
    /\ alnodes = << HamtEmptyNode >>
    /\ alterms = << >>
    /\ algen = [k \in AliasKeys |-> 0]
    /\ alheld = HeldNone
    /\ alcalls = 0

----------------------------------------------------------------------------
(* The worker pool with buffered results (internal/workers/pool.go): Run,   *)
(* worker, New, and the senders AddJob and GenerateFrom. wp.results has no  *)
(* receiver in the package and no accessor: nothing takes a result out.     *)

\* the number of jobs the callers send in a behaviour
WPoolMaxJobs == 3

\* wcount of New(wcount, jobcount): the workers Run starts
WPoolWorkers == {1, 2}

\* jobcount of New(wcount, jobcount): the capacity of wp.jobs and wp.results
WPoolJobCount == 2

\* New
WPoolInit ==
    /\ wpjobs = 0
    /\ wpjobsClosed = FALSE
    /\ wpresults = 0
    /\ wpactive = 0
    /\ wpctx = FALSE
    /\ wppc = [w \in WPoolWorkers |-> "start"]
    /\ wpDone = FALSE
    /\ wpsent = 0

----------------------------------------------------------------------------
(* One radix trie shared by goroutines that call Insert and Search under   *)
(* its sync.RWMutex                                                        *)

\* the number of Insert and Search calls the goroutines make
LinMaxCalls == 3

\* the goroutines
LinThreads == {1, 2}

\* the keys: "ab", "abc", "abd"
LinKeys == { <<97, 98>>, <<97, 98, 99>>, <<97, 98, 100>> }

LinOps == LinKeys \X DocIDs

\* t.mu.Lock() can proceed: no writer and no reader holds the lock
WLockFree(mu) == ~mu.writer /\ mu.readers = 0

\* a mutant of RLockFree: a reader does not wait for the writer
RLockFreeDespiteWriter(mu) == TRUE

\* t.mu.RLock() can proceed: no writer holds the lock
RLockFree(mu) == ~mu.writer

RECURSIVE RadixInsertHalfFrom(_, _, _, _)
\* the heap when Insert has made the first of its writes to the trie: the
\* terminal flag before the count (radix.go:67), the shortened prefix of the
\* old child before the middle node replaces it (radix.go:83), the new leaf
\* before it is appended to the children (radix.go:107-109)
RadixInsertHalfFrom(h, current, rest, docID) ==
    LET i == FirstHit(h, current, rest)
    IN  IF i = 0
        THEN Append(h, [newNode(rest) EXCEPT !.terminal = TRUE,
                                             !.docs = MapIncr(@, docID)])
        ELSE LET child == h[current].children[i]
                 p     == lcp(rest, h[child].prefix)
             IN  IF p = Len(h[child].prefix)
                 THEN IF Drop(rest, p) = << >>
                      THEN [h EXCEPT ![child].terminal = TRUE]
                      ELSE RadixInsertHalfFrom(h, child, Drop(rest, p), docID)
                 ELSE [Append(h, newNode(Take(h[child].prefix, p))) EXCEPT
                          ![child].prefix = Drop(h[child].prefix, p)]

RadixInsertHalf(h, word, docID) == RadixInsertHalfFrom(h, 1, word, docID)

LinIdle == [pc |-> "idle", key |-> << >>, docID |-> << >>, base |-> << >>,
            lower |-> << >>, result |-> << >>]

NoCalls == [op \in LinOps |-> 0]

LinInit ==
    /\ lheap = RadixNew
    /\ lmu = [writer |-> FALSE, readers |-> 0]
    /\ lth = [t \in LinThreads |-> LinIdle]
    /\ lstarted = NoCalls
    /\ lreturned = NoCalls
    /\ lres = [called |-> FALSE, key |-> << >>, result |-> << >>,
               lower |-> NoCalls, upper |-> NoCalls]
    /\ lcalls = 0

RadixInit ==
    /\ rnodes = RadixNew
    /\ rhist = [x \in RadixKeys \X DocIDs |-> 0]

RECURSIVE SumOver(_, _)
\* the sum of f over the set T
SumOver(f, T) ==
    IF T = {} THEN 0
    ELSE LET x == CHOOSE y \in T : TRUE IN f[x] + SumOver(f, T \ {x})

\* the Insert calls made so far
RadixCalls == SumOver(rhist, DOMAIN rhist)
HamtCalls == SumOver(hhist, DOMAIN hhist)

\* t.Insert(word, docID)
RadixInsertAct(word, docID) ==
    /\ RadixCalls < RadixMaxInserts
    /\ rnodes' = RadixInsert(rnodes, word, docID)
    /\ rhist' = [rhist EXCEPT ![<<word, docID>>] = @ + 1]
    /\ UNCHANGED <<hamtVars, trigramVars, searchVars, commVars, kvVars, linVars, storeVars, ksVars, snapVars, arenaVars, batcherVars, poolVars, tokVars, hamPtrVars, leafVars, bucketVars, aliasVars, wpoolVars>>

\* t.Insert(word, id) on the arena HAMT
HamtInsertAct(word, id) ==
    /\ HamtCalls < HamtMaxInserts
    /\ LET r == HamtInsert(hnodes, hterms, word, id)
       IN  hnodes' = r.nodes /\ hterms' = r.terms
    /\ hhist' = [hhist EXCEPT ![<<word, id>>] = @ + 1]
    /\ UNCHANGED <<radixVars, trigramVars, searchVars, commVars, kvVars, linVars, storeVars, ksVars, snapVars, arenaVars, batcherVars, poolVars, tokVars, hamPtrVars, leafVars, bucketVars, aliasVars, wpoolVars>>

\* t.Insert(trigram, docID) on the trigram trie
TrigramInsertAct(trigram, docID) ==
    /\ tcalls < TrigramMaxInserts
    /\ LET r == TrigramInsert(ttrie, trigram, docID)
       IN  /\ ttrie' = r.heap
           /\ tlast' = [key |-> trigram, docID |-> docID, err |-> r.err]
    /\ tcalls' = tcalls + 1
    /\ thist' = IF TrigramInsert(ttrie, trigram, docID).err = "nil"
                THEN [thist EXCEPT ![<<trigram, docID>>] = @ + 1]
                ELSE thist
    /\ UNCHANGED <<radixVars, hamtVars, searchVars, commVars, kvVars, linVars, storeVars, ksVars, snapVars, arenaVars, batcherVars, poolVars, tokVars, hamPtrVars, leafVars, bucketVars, aliasVars, wpoolVars>>

\* s.IndexDocument(ctx, docID, content)
IndexDocumentAct(docID, content) ==
    /\ Len(sdone) < SearchMaxIndexed
    /\ LET r == IndexDocument(sindex, docID, content)
       IN  sindex' = r.heap /\ sret' = r.err
    /\ sdone' = Append(sdone, [docID |-> docID, content |-> content])
    /\ UNCHANGED <<sres, radixVars, hamtVars, trigramVars, commVars, kvVars, linVars, storeVars, ksVars, snapVars, arenaVars, batcherVars, poolVars, tokVars, hamPtrVars, leafVars, bucketVars, aliasVars, wpoolVars>>

\* s.SearchDocuments(ctx, query, maxResults)
SearchDocumentsAct(query, maxResults) ==
    /\ \E order \in Orders(Matches(sindex, query)) :
          LET r == SearchDocuments(sindex, query, maxResults, order)
          IN  sres' = [query |-> query, maxResults |-> maxResults, err |-> r.err,
                       ResultData |-> r.ResultData,
                       TotalResultsCount |-> r.TotalResultsCount]
    /\ UNCHANGED <<sindex, sdone, sret, radixVars, hamtVars, trigramVars, commVars, kvVars, linVars, storeVars, ksVars, snapVars, arenaVars, batcherVars, poolVars, tokVars, hamPtrVars, leafVars, bucketVars, aliasVars, wpoolVars>>

\* New() of one kind, twice
CommNew(kind) ==
    /\ ckind = "none"
    /\ ckind' = kind
    /\ cA' = IndexNew(kind)
    /\ cB' = IndexNew(kind)
    /\ UNCHANGED <<cpend, cn, radixVars, hamtVars, trigramVars, searchVars, kvVars, linVars, storeVars, ksVars, snapVars, arenaVars, batcherVars, poolVars, tokVars, hamPtrVars, leafVars, bucketVars, aliasVars, wpoolVars>>

\* Insert(key, id) on the first index; the second has it pending
CommInsertA(key, id) ==
    /\ ckind # "none"
    /\ key \in CommKeys(ckind)
    /\ cn < CommMaxInserts
    /\ cA' = IndexInsert(ckind, cA, key, id)
    /\ cpend' = cpend (+) SetToBag({<<key, id>>})
    /\ cn' = cn + 1
    /\ UNCHANGED <<ckind, cB, radixVars, hamtVars, trigramVars, searchVars, kvVars, linVars, storeVars, ksVars, snapVars, arenaVars, batcherVars, poolVars, tokVars, hamPtrVars, leafVars, bucketVars, aliasVars, wpoolVars>>

\* Insert(key, id) on the second index, for any pending insert
CommInsertB(key, id) ==
    /\ BagIn(<<key, id>>, cpend)
    /\ cB' = IndexInsert(ckind, cB, key, id)
    /\ cpend' = cpend (-) SetToBag({<<key, id>>})
    /\ UNCHANGED <<ckind, cA, cn, radixVars, hamtVars, trigramVars, searchVars, kvVars, linVars, storeVars, ksVars, snapVars, arenaVars, batcherVars, poolVars, tokVars, hamPtrVars, leafVars, bucketVars, aliasVars, wpoolVars>>

\* AddJob hands a job to a free worker, which enters ProcessDocument and
\* SaveDocumentWithIndexing up to the loop over wordsCount
KVStart(w, document) ==
    /\ kvw[w].pc = "idle"
    /\ kvsent < KVMaxJobs
    /\ kvsent' = kvsent + 1
    /\ LET counts == WordsCount(preprocessText(document.Abstract))
       IN  kvw' = [kvw EXCEPT ![w] =
                      [pc |-> "index", doc |-> document, counts |-> counts,
                       todo |-> DOMAIN counts,
                       batch |-> BatchPut(<< >>, DocKey(document.ID), document)]]
    /\ UNCHANGED <<kvdb, kvdone, radixVars, hamtVars, trigramVars, searchVars, commVars, linVars, storeVars, ksVars, snapVars, arenaVars, batcherVars, poolVars, tokVars, hamPtrVars, leafVars, bucketVars, aliasVars, wpoolVars>>

\* one iteration of the loop over wordsCount: Get the word's list, put the
\* extended list into the batch
KVIndexWord(w, word) ==
    /\ kvw[w].pc = "index"
    /\ word \in kvw[w].todo
    /\ LET existing == DBGet(kvdb, WordKey(word))
           value    == IndexData(existing, kvw[w].doc.ID, kvw[w].counts[word])
       IN  kvw' = [kvw EXCEPT ![w].todo = @ \ {word},
                              ![w].batch = BatchPut(@, WordKey(word), value)]
    /\ UNCHANGED <<kvdb, kvsent, kvdone, radixVars, hamtVars, trigramVars, searchVars, commVars, linVars, storeVars, ksVars, snapVars, arenaVars, batcherVars, poolVars, tokVars, hamPtrVars, leafVars, bucketVars, aliasVars, wpoolVars>>

\* s.db.Write(batch, nil) and the return of ProcessDocument
KVWrite(w) ==
    /\ kvw[w].pc = "index"
    /\ kvw[w].todo = {}
    /\ kvdb' = DBWrite(kvdb, kvw[w].batch)
    /\ kvdone' = kvdone \cup {kvw[w].doc}
    /\ kvw' = [kvw EXCEPT ![w] = KVIdle]
    /\ UNCHANGED <<kvsent, radixVars, hamtVars, trigramVars, searchVars, commVars, linVars, storeVars, ksVars, snapVars, arenaVars, batcherVars, poolVars, tokVars, hamPtrVars, leafVars, bucketVars, aliasVars, wpoolVars>>

KVWords == UNION { Range(preprocessText(d.Abstract)) : d \in KVDocuments }

KVStep ==
    \/ \E w \in KVWorkers, document \in KVDocuments : KVStart(w, document)
    \/ \E w \in KVWorkers, word \in KVWords : KVIndexWord(w, word)
    \/ \E w \in KVWorkers : KVWrite(w)

\* a goroutine calls Insert(word, docID)
LinInsertCall(t, word, docID) ==
    /\ lth[t].pc = "idle"
    /\ lcalls < LinMaxCalls
    /\ lcalls' = lcalls + 1
    /\ lth' = [lth EXCEPT ![t] = [LinIdle EXCEPT !.pc = "lock", !.key = word,
                                                 !.docID = docID]]
    /\ lstarted' = [lstarted EXCEPT ![<<word, docID>>] = @ + 1]
    /\ UNCHANGED <<lheap, lmu, lreturned, lres, radixVars, hamtVars, trigramVars, searchVars, commVars, kvVars, storeVars, ksVars, snapVars, arenaVars, batcherVars, poolVars, tokVars, hamPtrVars, leafVars, bucketVars, aliasVars, wpoolVars>>

\* t.mu.Lock() and the first write of Insert to the trie
LinInsertLock(t) ==
    /\ lth[t].pc = "lock"
    /\ WLockFree(lmu)
    /\ lmu' = [lmu EXCEPT !.writer = TRUE]
    /\ lth' = [lth EXCEPT ![t].pc = "unlock", ![t].base = lheap]
    /\ lheap' = RadixInsertHalf(lheap, lth[t].key, lth[t].docID)
    /\ UNCHANGED <<lstarted, lreturned, lres, lcalls, radixVars, hamtVars, trigramVars, searchVars, commVars, kvVars, storeVars, ksVars, snapVars, arenaVars, batcherVars, poolVars, tokVars, hamPtrVars, leafVars, bucketVars, aliasVars, wpoolVars>>

\* the remaining writes of Insert, the deferred t.mu.Unlock() and the return
LinInsertReturn(t) ==
    /\ lth[t].pc = "unlock"
    /\ lheap' = RadixInsert(lth[t].base, lth[t].key, lth[t].docID)
    /\ lmu' = [lmu EXCEPT !.writer = FALSE]
    /\ lreturned' = [lreturned EXCEPT ![<<lth[t].key, lth[t].docID>>] = @ + 1]
    /\ lth' = [lth EXCEPT ![t] = LinIdle]
    /\ UNCHANGED <<lstarted, lres, lcalls, radixVars, hamtVars, trigramVars, searchVars, commVars, kvVars, storeVars, ksVars, snapVars, arenaVars, batcherVars, poolVars, tokVars, hamPtrVars, leafVars, bucketVars, aliasVars, wpoolVars>>

\* a goroutine calls Search(word)
LinSearchCall(t, word) ==
    /\ lth[t].pc = "idle"
    /\ lcalls < LinMaxCalls
    /\ lcalls' = lcalls + 1
    /\ lth' = [lth EXCEPT ![t] = [LinIdle EXCEPT !.pc = "rlock", !.key = word,
                                                 !.lower = lreturned]]
    /\ UNCHANGED <<lheap, lmu, lstarted, lreturned, lres, radixVars, hamtVars, trigramVars, searchVars, commVars, kvVars, storeVars, ksVars, snapVars, arenaVars, batcherVars, poolVars, tokVars, hamPtrVars, leafVars, bucketVars, aliasVars, wpoolVars>>

\* t.mu.RLock() and the walk of Search down the trie
LinSearchRead(t) ==
    /\ lth[t].pc = "rlock"
    /\ RLockFree(lmu)
    /\ lmu' = [lmu EXCEPT !.readers = @ + 1]
    /\ lth' = [lth EXCEPT ![t].pc = "runlock",
                          ![t].result = RadixSearch(lheap, lth[t].key)]
    /\ UNCHANGED <<lheap, lstarted, lreturned, lres, lcalls, radixVars, hamtVars, trigramVars, searchVars, commVars, kvVars, storeVars, ksVars, snapVars, arenaVars, batcherVars, poolVars, tokVars, hamPtrVars, leafVars, bucketVars, aliasVars, wpoolVars>>

\* the deferred t.mu.RUnlock() and the return of Search
LinSearchReturn(t) ==
    /\ lth[t].pc = "runlock"
    /\ lmu' = [lmu EXCEPT !.readers = @ - 1]
    /\ lres' = [called |-> TRUE, key |-> lth[t].key, result |-> lth[t].result,
                lower |-> lth[t].lower, upper |-> lstarted]
    /\ lth' = [lth EXCEPT ![t] = LinIdle]
    /\ UNCHANGED <<lheap, lstarted, lreturned, lcalls, radixVars, hamtVars, trigramVars, searchVars, commVars, kvVars, storeVars, ksVars, snapVars, arenaVars, batcherVars, poolVars, tokVars, hamPtrVars, leafVars, bucketVars, aliasVars, wpoolVars>>

LinStep ==
    \/ \E t \in LinThreads, word \in LinKeys, docID \in DocIDs : LinInsertCall(t, word, docID)
    \/ \E t \in LinThreads : LinInsertLock(t)
    \/ \E t \in LinThreads : LinInsertReturn(t)
    \/ \E t \in LinThreads, word \in LinKeys : LinSearchCall(t, word)
    \/ \E t \in LinThreads : LinSearchRead(t)
    \/ \E t \in LinThreads : LinSearchReturn(t)

\* KeyValueFTS.ProcessDocument(document), from the call to its return
StoreIndex(document) ==
    /\ stlast.n < StoreMaxCalls
    /\ stdb' = ProcessDocument(stdb, document)
    /\ stlast' = [op |-> "index", n |-> stlast.n + 1, doc |-> document, before |-> stdb]
    /\ UNCHANGED <<radixVars, hamtVars, trigramVars, searchVars, commVars, kvVars, linVars, ksVars, snapVars, arenaVars, batcherVars, poolVars, tokVars, hamPtrVars, leafVars, bucketVars, aliasVars, wpoolVars>>

\* Storage.DeleteDocument(docID), from the call to its return
StoreDelete(docID) ==
    /\ stlast.n < StoreMaxCalls
    /\ stdb' = DeleteDocument(stdb, docID)
    /\ stlast' = [op |-> "delete", n |-> stlast.n + 1, docID |-> docID, before |-> stdb]
    /\ UNCHANGED <<radixVars, hamtVars, trigramVars, searchVars, commVars, kvVars, linVars, ksVars, snapVars, arenaVars, batcherVars, poolVars, tokVars, hamPtrVars, leafVars, bucketVars, aliasVars, wpoolVars>>

\* KeyValueFTS.SearchDocuments(query, maxResults), from the call to its
\* return; failing are the docIDs whose read from the disk fails, order is
\* the order of the range over docFrequency
StoreSearch(query, maxResults, failing) ==
    /\ \E order \in Orders(StoreMatches(stdb, query)) :
          stlast' = [op |-> "search", n |-> stlast.n, query |-> query,
                     maxResults |-> maxResults, order |-> order, failing |-> failing,
                     res |-> StoreSearchDocuments(stdb, query, maxResults, order, failing)]
    /\ UNCHANGED <<stdb, radixVars, hamtVars, trigramVars, searchVars, commVars, kvVars, linVars, ksVars, snapVars, arenaVars, batcherVars, poolVars, tokVars, hamPtrVars, leafVars, bucketVars, aliasVars, wpoolVars>>

\* the documents the caller of the store works with
StoreDocuments == { d \in KVDocuments : d.ID \in DocIDs }

StoreStep ==
    \/ \E document \in StoreDocuments : StoreIndex(document)
    \/ \E docID \in DocIDs : StoreDelete(docID)
    \/ \E query \in StoreQueries, maxResults \in 1..StoreMaxResults,
          failing \in { {} } \cup { {d} : d \in DocIDs } :
          StoreSearch(query, maxResults, failing)

\* SearchDocuments(query, maxResults) is called on the store db: it
\* preprocesses the query and starts one goroutine per token
KSStart(query, db) ==
    /\ ggo = << >>
    /\ gdb' = db
    /\ gquery' = query
    /\ LET tokens == preprocessText(query)
       IN  ggo' = [i \in 1..Len(tokens) |-> KSGoroutine(tokens[i])]
    /\ gfreq' = << >>
    /\ gmatch' = << >>
    /\ gmu' = FALSE
    /\ gres' = [called |-> FALSE]
    /\ UNCHANGED <<radixVars, hamtVars, trigramVars, searchVars, commVars, kvVars, linVars, storeVars, snapVars, arenaVars, batcherVars, poolVars, tokVars, hamPtrVars, leafVars, bucketVars, aliasVars, wpoolVars>>

\* goroutine i: GetWord(token); an error ends the goroutine
KSGetWord(i) ==
    /\ ggo[i].pc = "get"
    /\ LET got == GetWord(gdb, ggo[i].token)
       IN  ggo' = [ggo EXCEPT ![i].pc = IF got.err # "nil" THEN "done" ELSE "pairs",
                              ![i].pairs = IF got.err # "nil" THEN << >>
                                           ELSE SplitAll(got.entries)]
    /\ UNCHANGED <<gdb, gquery, gfreq, gmatch, gmu, gres, radixVars, hamtVars, trigramVars, searchVars, commVars, kvVars, linVars, storeVars, snapVars, arenaVars, batcherVars, poolVars, tokVars, hamPtrVars, leafVars, bucketVars, aliasVars, wpoolVars>>

\* goroutine i, next pair: a pair that is not docID:count is skipped; else
\* localMap[docID] += count, mu.Lock() and the read of wordMatchCount[docID]
KSPairLock(i) ==
    /\ ggo[i].pc = "pairs"
    /\ ggo[i].pairs # << >>
    /\ LET parts == Split(Head(ggo[i].pairs), 58)
       IN  IF Len(parts) # 2
           THEN /\ ggo' = [ggo EXCEPT ![i].pairs = Tail(@)]
                /\ gmu' = gmu
           ELSE /\ MuFree(gmu)
                /\ gmu' = TRUE
                /\ ggo' = [ggo EXCEPT ![i].pc = "inc",
                                      ![i].docID = parts[1],
                                      ![i].localMap = MapAdd(@, parts[1], Atoi(parts[2])),
                                      ![i].read = MapGet(gmatch, parts[1])]
    /\ UNCHANGED <<gdb, gquery, gfreq, gmatch, gres, radixVars, hamtVars, trigramVars, searchVars, commVars, kvVars, linVars, storeVars, snapVars, arenaVars, batcherVars, poolVars, tokVars, hamPtrVars, leafVars, bucketVars, aliasVars, wpoolVars>>

\* goroutine i: the write of wordMatchCount[docID]++ and mu.Unlock()
KSPairUnlock(i) ==
    /\ ggo[i].pc = "inc"
    /\ gmatch' = MapSet(gmatch, ggo[i].docID, ggo[i].read + 1)
    /\ gmu' = FALSE
    /\ ggo' = [ggo EXCEPT ![i].pc = "pairs", ![i].pairs = Tail(@)]
    /\ UNCHANGED <<gdb, gquery, gfreq, gres, radixVars, hamtVars, trigramVars, searchVars, commVars, kvVars, linVars, storeVars, snapVars, arenaVars, batcherVars, poolVars, tokVars, hamPtrVars, leafVars, bucketVars, aliasVars, wpoolVars>>

\* goroutine i after its last pair: mu.Lock() and the reads of docFrequency
KSMergeLock(i) ==
    /\ ggo[i].pc = "pairs"
    /\ ggo[i].pairs = << >>
    /\ MuFree(gmu)
    /\ gmu' = TRUE
    /\ ggo' = [ggo EXCEPT ![i].pc = "merge", ![i].base = gfreq]
    /\ UNCHANGED <<gdb, gquery, gfreq, gmatch, gres, radixVars, hamtVars, trigramVars, searchVars, commVars, kvVars, linVars, storeVars, snapVars, arenaVars, batcherVars, poolVars, tokVars, hamPtrVars, leafVars, bucketVars, aliasVars, wpoolVars>>

\* goroutine i: the writes of docFrequency[docID] += count, mu.Unlock() and
\* wg.Done()
KSMergeUnlock(i) ==
    /\ ggo[i].pc = "merge"
    /\ gfreq' = MergeCounts(ggo[i].base, ggo[i].localMap)
    /\ gmu' = FALSE
    /\ ggo' = [ggo EXCEPT ![i].pc = "done"]
    /\ UNCHANGED <<gdb, gquery, gmatch, gres, radixVars, hamtVars, trigramVars, searchVars, commVars, kvVars, linVars, storeVars, snapVars, arenaVars, batcherVars, poolVars, tokVars, hamPtrVars, leafVars, bucketVars, aliasVars, wpoolVars>>

\* wg.Wait() returns: the maps that docMatches is built from
KSWait ==
    /\ ~gres.called
    /\ gquery # << >>
    /\ \A i \in 1..Len(ggo) : ggo[i].pc = "done"
    /\ gres' = [called |-> TRUE, query |-> gquery, db |-> gdb,
                docFrequency |-> gfreq, wordMatchCount |-> gmatch]
    /\ ggo' = << >>
    /\ UNCHANGED <<gdb, gquery, gfreq, gmatch, gmu, radixVars, hamtVars, trigramVars, searchVars, commVars, kvVars, linVars, storeVars, snapVars, arenaVars, batcherVars, poolVars, tokVars, hamPtrVars, leafVars, bucketVars, aliasVars, wpoolVars>>

KSStep ==
    \/ \E query \in KSQueries, db \in StoresAfter(KSMaxIndexed) : KSStart(query, db)
    \/ \E i \in DOMAIN ggo : KSGetWord(i)
    \/ \E i \in DOMAIN ggo : KSPairLock(i)
    \/ \E i \in DOMAIN ggo : KSPairUnlock(i)
    \/ \E i \in DOMAIN ggo : KSMergeLock(i)
    \/ \E i \in DOMAIN ggo : KSMergeUnlock(i)
    \/ KSWait

\* Insert(word, docID)
SnapInsert(word, docID) ==
    /\ sncalls < SnapMaxCalls
    /\ sncalls' = sncalls + 1
    /\ snheap' = RadixInsert(snheap, word, docID)
    /\ snpure' = RadixInsert(snpure, word, docID)
    /\ UNCHANGED <<snheld, radixVars, hamtVars, trigramVars, searchVars, commVars, kvVars, linVars, storeVars, ksVars, arenaVars, batcherVars, poolVars, tokVars, hamPtrVars, leafVars, bucketVars, aliasVars, wpoolVars>>

\* Search(word); the caller keeps the result
SnapSearch(word) ==
    /\ sncalls < SnapMaxCalls
    /\ sncalls' = sncalls + 1
    /\ LET r == RadixSearchObject(snheap, word)
       IN  snheld' = Append(snheld, [key |-> word, r |-> r,
                                     seen |-> ResultContents(snheap, r)])
    /\ UNCHANGED <<snheap, snpure, radixVars, hamtVars, trigramVars, searchVars, commVars, kvVars, linVars, storeVars, ksVars, arenaVars, batcherVars, poolVars, tokVars, hamPtrVars, leafVars, bucketVars, aliasVars, wpoolVars>>

\* the caller writes result[docID] = SnapWritten into the i-th result it
\* holds: into the result's own collection, or into the node's map if the
\* result is that map
SnapMutate(i, docID) ==
    /\ sncalls < SnapMaxCalls
    /\ sncalls' = sncalls + 1
    /\ ~snheld[i].r.isnil
    /\ LET r == snheld[i].r
       IN  IF r.node # 0
           THEN /\ snheap' = [snheap EXCEPT ![r.node].docs = MapSet(@, docID, SnapWritten)]
                /\ snheld' = [snheld EXCEPT ![i].seen = MapSet(@, docID, SnapWritten)]
           ELSE /\ snheap' = snheap
                /\ snheld' = [snheld EXCEPT ![i].r.val = MapSet(@, docID, SnapWritten),
                                            ![i].seen = MapSet(@, docID, SnapWritten)]
    /\ UNCHANGED <<snpure, radixVars, hamtVars, trigramVars, searchVars, commVars, kvVars, linVars, storeVars, ksVars, arenaVars, batcherVars, poolVars, tokVars, hamPtrVars, leafVars, bucketVars, aliasVars, wpoolVars>>

SnapStep ==
    \/ \E word \in LinKeys, docID \in DocIDs : SnapInsert(word, docID)
    \/ \E word \in LinKeys : SnapSearch(word)
    \/ \E i \in DOMAIN snheld, docID \in DocIDs : SnapMutate(i, docID)

\* Insert(word, docID) on both tries, n times in a row
ArenaInsertAct(word, docID, n) ==
    /\ asteps < ArenaMaxSteps
    /\ n > 1 => word # << >>
    /\ asteps' = asteps + 1
    /\ aptr' = RadixInsertTimes(aptr, word, docID, n)
    /\ aarena' = ArenaInsertTimes(aarena, word, docID, n)
    /\ ahist' = [ahist EXCEPT ![<<word, docID>>] = @ + n]
    /\ UNCHANGED <<radixVars, hamtVars, trigramVars, searchVars, commVars, kvVars, linVars, storeVars, ksVars, snapVars, batcherVars, poolVars, tokVars, hamPtrVars, leafVars, bucketVars, aliasVars, wpoolVars>>

ArenaStep ==
    \E word \in ArenaKeys, docID \in DocIDs, n \in {1, ArenaRun} :
        ArenaInsertAct(word, docID, n)

\* BatchDocument(ctx, document) whose send on s.writeChan succeeds; the
\* driver calls it before StopWorkers
BatcherSend(id) ==
    /\ bstop = "idle"
    /\ Len(bacc) < BatcherMaxDocs
    /\ Len(bchan) < BatcherChanCap
    /\ bacc' = Append(bacc, id)
    /\ bchan' = Append(bchan, [n |-> Len(bacc) + 1, ID |-> id])
    /\ UNCHANGED <<bclosed, bbatch, bdb, bwrites, bworker, bstop, bflushes, radixVars, hamtVars, trigramVars, searchVars, commVars, kvVars, linVars, storeVars, ksVars, snapVars, arenaVars, poolVars, tokVars, hamPtrVars, leafVars, bucketVars, aliasVars, wpoolVars>>

\* writeWorker receives a document: batch.Put, and the flush when the batch
\* has reached bufferSize
BatcherReceive ==
    /\ bworker = "run"
    /\ bchan # << >>
    /\ bchan' = Tail(bchan)
    /\ LET batch == Append(bbatch, Head(bchan))
       IN  IF Len(batch) >= BatcherBufferSize
           THEN /\ bdb' = BatcherWrite(bdb, batch)
                /\ bwrites' = BatcherCounted(bwrites, batch)
                /\ bbatch' = << >>
                /\ bflushes' = bflushes \cup {"threshold"}
           ELSE /\ bbatch' = batch
                /\ UNCHANGED <<bdb, bwrites, bflushes, poolVars, tokVars, hamPtrVars, leafVars, bucketVars, aliasVars, wpoolVars>>
    /\ UNCHANGED <<bclosed, bacc, bworker, bstop, radixVars, hamtVars, trigramVars, searchVars, commVars, kvVars, linVars, storeVars, ksVars, snapVars, arenaVars, poolVars, tokVars, hamPtrVars, leafVars, bucketVars, aliasVars, wpoolVars>>

\* writeWorker takes a tick of the flushTimeout ticker with a batch that is
\* not empty
BatcherTick ==
    /\ bworker = "run"
    /\ Len(bbatch) > 0
    /\ bdb' = BatcherWrite(bdb, bbatch)
    /\ bwrites' = BatcherCounted(bwrites, bbatch)
    /\ bbatch' = << >>
    /\ bflushes' = bflushes \cup {"timer"}
    /\ UNCHANGED <<bchan, bclosed, bacc, bworker, bstop, radixVars, hamtVars, trigramVars, searchVars, commVars, kvVars, linVars, storeVars, ksVars, snapVars, arenaVars, poolVars, tokVars, hamPtrVars, leafVars, bucketVars, aliasVars, wpoolVars>>

\* writeWorker receives from the closed and drained channel: the final
\* flush, return, wg.Done()
BatcherFinish ==
    /\ bworker = "run"
    /\ bclosed
    /\ bchan = << >>
    /\ LET after == FlushOnClose([db |-> bdb, writes |-> bwrites], bbatch)
       IN  /\ bdb' = after.db
           /\ bwrites' = after.writes
    /\ bflushes' = IF bbatch # << >> THEN bflushes \cup {"close"} ELSE bflushes
    /\ bbatch' = << >>
    /\ bworker' = "done"
    /\ UNCHANGED <<bchan, bclosed, bacc, bstop, radixVars, hamtVars, trigramVars, searchVars, commVars, kvVars, linVars, storeVars, ksVars, snapVars, arenaVars, poolVars, tokVars, hamPtrVars, leafVars, bucketVars, aliasVars, wpoolVars>>

\* StopWorkers: close(s.writeChan)
BatcherStop ==
    /\ bstop = "idle"
    /\ bclosed' = TRUE
    /\ bstop' = "wait"
    /\ UNCHANGED <<bchan, bbatch, bdb, bwrites, bacc, bworker, bflushes, radixVars, hamtVars, trigramVars, searchVars, commVars, kvVars, linVars, storeVars, ksVars, snapVars, arenaVars, poolVars, tokVars, hamPtrVars, leafVars, bucketVars, aliasVars, wpoolVars>>

\* StopWorkers: s.wg.Wait() returns
BatcherStopped ==
    /\ bstop = "wait"
    /\ bworker = "done"
    /\ bstop' = "returned"
    /\ UNCHANGED <<bchan, bclosed, bbatch, bdb, bwrites, bacc, bworker, bflushes, radixVars, hamtVars, trigramVars, searchVars, commVars, kvVars, linVars, storeVars, ksVars, snapVars, arenaVars, poolVars, tokVars, hamPtrVars, leafVars, bucketVars, aliasVars, wpoolVars>>

BatcherStep ==
    \/ \E id \in DocIDs : BatcherSend(id)
    \/ BatcherReceive
    \/ BatcherTick
    \/ BatcherFinish
    \/ BatcherStop
    \/ BatcherStopped

\* the send of AddJob meets the receive of worker w on the unbuffered
\* channel: AddJob returns, the worker goes on to execute the job
PoolHandOver(w) ==
    /\ pdrv = "adding"
    /\ pnext <= PoolMaxJobs
    /\ ~pclosed
    /\ pwork[w].pc = "select"
    /\ pwork' = [pwork EXCEPT ![w] = [pc |-> "execute", job |-> pnext]]
    /\ pnext' = pnext + 1
    /\ UNCHANGED <<pdrv, pctx, pclosed, pfinished, patreport, radixVars, hamtVars, trigramVars, searchVars, commVars, kvVars, linVars, storeVars, ksVars, snapVars, arenaVars, batcherVars, tokVars, hamPtrVars, leafVars, bucketVars, aliasVars, wpoolVars>>

\* job.execute(ctx) of worker w returns: the document is indexed
PoolExecuted(w) ==
    /\ pdrv # "panicked"
    /\ pwork[w].pc = "execute"
    /\ pfinished' = pfinished \cup {pwork[w].job}
    /\ pwork' = [pwork EXCEPT ![w] = PoolIdle]
    /\ UNCHANGED <<pnext, pdrv, pctx, pclosed, patreport, radixVars, hamtVars, trigramVars, searchVars, commVars, kvVars, linVars, storeVars, ksVars, snapVars, arenaVars, batcherVars, tokVars, hamPtrVars, leafVars, bucketVars, aliasVars, wpoolVars>>

\* the context is cancelled
PoolCancel ==
    /\ pdrv # "panicked"
    /\ ~pctx
    /\ pctx' = TRUE
    /\ UNCHANGED <<pnext, pdrv, pwork, pclosed, pfinished, patreport, radixVars, hamtVars, trigramVars, searchVars, commVars, kvVars, linVars, storeVars, ksVars, snapVars, arenaVars, batcherVars, tokVars, hamPtrVars, leafVars, bucketVars, aliasVars, wpoolVars>>

\* worker w returns from its select: wg.Done()
PoolWorkerReturn(w) ==
    /\ pdrv # "panicked"
    /\ pwork[w].pc = "select"
    /\ PoolCanReturn(pctx, pclosed)
    /\ pwork' = [pwork EXCEPT ![w] = [pc |-> "done", job |-> 0]]
    /\ UNCHANGED <<pnext, pdrv, pctx, pclosed, pfinished, patreport, radixVars, hamtVars, trigramVars, searchVars, commVars, kvVars, linVars, storeVars, ksVars, snapVars, arenaVars, batcherVars, tokVars, hamPtrVars, leafVars, bucketVars, aliasVars, wpoolVars>>

\* Run: wg.Wait() returns, close(wp.jobs), close(wp.Done)
PoolRunClose ==
    /\ pdrv # "panicked"
    /\ ~pclosed
    /\ \A w \in PoolWorkers : pwork[w].pc = "done"
    /\ pclosed' = TRUE
    /\ UNCHANGED <<pnext, pdrv, pwork, pctx, pfinished, patreport, radixVars, hamtVars, trigramVars, searchVars, commVars, kvVars, linVars, storeVars, ksVars, snapVars, arenaVars, batcherVars, tokVars, hamPtrVars, leafVars, bucketVars, aliasVars, wpoolVars>>

\* the send of AddJob finds wp.jobs closed: the runtime panics
PoolSendOnClosed ==
    /\ pdrv = "adding"
    /\ pnext <= PoolMaxJobs
    /\ pclosed
    /\ pdrv' = "panicked"
    /\ UNCHANGED <<pnext, pwork, pctx, pclosed, pfinished, patreport, radixVars, hamtVars, trigramVars, searchVars, commVars, kvVars, linVars, storeVars, ksVars, snapVars, arenaVars, batcherVars, tokVars, hamPtrVars, leafVars, bucketVars, aliasVars, wpoolVars>>

\* the loop of the driver is over: it prints "Indexing complete" and
\* starts the UI
PoolReport ==
    /\ pdrv = "adding"
    /\ pnext > PoolMaxJobs
    /\ pdrv' = "reported"
    /\ patreport' = (1..PoolMaxJobs) \ pfinished
    /\ UNCHANGED <<pnext, pwork, pctx, pclosed, pfinished, radixVars, hamtVars, trigramVars, searchVars, commVars, kvVars, linVars, storeVars, ksVars, snapVars, arenaVars, batcherVars, tokVars, hamPtrVars, leafVars, bucketVars, aliasVars, wpoolVars>>

PoolStep ==
    \/ \E w \in PoolWorkers : PoolHandOver(w)
    \/ \E w \in PoolWorkers : PoolExecuted(w)
    \/ PoolCancel
    \/ \E w \in PoolWorkers : PoolWorkerReturn(w)
    \/ PoolRunClose
    \/ PoolSendOnClosed
    \/ PoolReport

\* the input grows by one code point and is tokenized by both functions
TokExtend(rune) ==
    /\ Len(tkrunes) < TokMaxRunes
    /\ tkrunes' = Append(tkrunes, rune)
    /\ tktokens' = TokenizeBoth(Concat(tkrunes'))
    /\ UNCHANGED <<radixVars, hamtVars, trigramVars, searchVars, commVars, kvVars, linVars, storeVars, ksVars, snapVars, arenaVars, batcherVars, poolVars, hamPtrVars, leafVars, bucketVars, aliasVars, wpoolVars>>

TokStep == \E rune \in TokRunes : TokExtend(rune)

\* t.Insert(word, docID) on the pointer HAMT
HamInsertAct(word, docID) ==
    /\ SumOver(hphist, DOMAIN hphist) < HamMaxInserts
    /\ LET r == HamInsert(hpnodes, hpterms, word, docID)
       IN  hpnodes' = r.nodes /\ hpterms' = r.terms
    /\ hphist' = [hphist EXCEPT ![<<word, docID>>] = @ + 1]
    /\ UNCHANGED <<radixVars, hamtVars, trigramVars, searchVars, commVars, kvVars, linVars, storeVars, ksVars, snapVars, arenaVars, batcherVars, poolVars, tokVars, leafVars, bucketVars, aliasVars, wpoolVars>>

HamStep == \E word \in HamKeys, docID \in DocIDs : HamInsertAct(word, docID)

\* t.Insert(word, docID) on the leaf HAMT
LeafInsertAct(word, docID) ==
    /\ SumOver(lfhist, DOMAIN lfhist) < LeafMaxInserts
    /\ lfheap' = LeafInsert(lfheap, word, docID)
    /\ lfhist' = [lfhist EXCEPT ![<<word, docID>>] = @ + 1]
    /\ UNCHANGED <<radixVars, hamtVars, trigramVars, searchVars, commVars, kvVars, linVars, storeVars, ksVars, snapVars, arenaVars, batcherVars, poolVars, tokVars, hamPtrVars, bucketVars, aliasVars, wpoolVars>>

LeafStep == \E word \in LeafKeys, docID \in DocIDs : LeafInsertAct(word, docID)

\* t.Insert(word, id) on the bucket HAMT
BucketInsertAct(word, id) ==
    /\ bkcalls < BucketMaxInserts
    /\ LET r == BucketInsert(bknodes, bkterms, word, id)
       IN  bknodes' = r.nodes /\ bkterms' = r.terms
    /\ bkcalls' = bkcalls + 1
    /\ UNCHANGED <<radixVars, hamtVars, trigramVars, searchVars, commVars, kvVars, linVars, storeVars, ksVars, snapVars, arenaVars, batcherVars, poolVars, tokVars, hamPtrVars, leafVars, aliasVars, wpoolVars>>

BucketStep == \E word \in HamKeys, id \in DocIDs : BucketInsertAct(word, id)

\* t.Insert(trigram, docID) on the trigram trie
AliasTrigramInsert(trigram, docID) ==
    /\ alcalls < AliasMaxCalls
    /\ alcalls' = alcalls + 1
    /\ altrie' = TrigramInsert(altrie, trigram, docID).heap
    /\ UNCHANGED <<alnodes, alterms, algen, alheld, radixVars, hamtVars, trigramVars, searchVars, commVars, kvVars, linVars, storeVars, ksVars, snapVars, arenaVars, batcherVars, poolVars, tokVars, hamPtrVars, leafVars, bucketVars, wpoolVars>>

\* docs, _ := t.Search(word) on the trigram trie: return node.docs
AliasTrigramSearch(word) ==
    /\ alcalls < AliasMaxCalls
    /\ alcalls' = alcalls + 1
    /\ LET node == TrigramNodeLoop(altrie, 1, word, 0)
       IN  alheld' = [kind |-> "trigram", key |-> word, node |-> node, gen |-> 0,
                      isnil |-> node = 0,
                      seen |-> TrigramSearch(altrie, word).docs]
    /\ UNCHANGED <<altrie, alnodes, alterms, algen, radixVars, hamtVars, trigramVars, searchVars, commVars, kvVars, linVars, storeVars, ksVars, snapVars, arenaVars, batcherVars, poolVars, tokVars, hamPtrVars, leafVars, bucketVars, wpoolVars>>

\* t.Insert(word, id) on the arena HAMT
AliasHamtInsert(word, id) ==
    /\ alcalls < AliasMaxCalls
    /\ alcalls' = alcalls + 1
    /\ LET r == HamtInsert(alnodes, alterms, word, id)
       IN  alnodes' = r.nodes /\ alterms' = r.terms
    /\ algen' = IF DocsReallocated(HamtSearch(alnodes, alterms, word), id)
                THEN [algen EXCEPT ![word] = @ + 1]
                ELSE algen
    /\ UNCHANGED <<altrie, alheld, radixVars, hamtVars, trigramVars, searchVars, commVars, kvVars, linVars, storeVars, ksVars, snapVars, arenaVars, batcherVars, poolVars, tokVars, hamPtrVars, leafVars, bucketVars, wpoolVars>>

\* docs, _ := t.Search(key) on the arena HAMT: return the docs of the entry
AliasHamtSearch(key) ==
    /\ alcalls < AliasMaxCalls
    /\ alcalls' = alcalls + 1
    /\ LET docs == HamtSearch(alnodes, alterms, key)
       IN  alheld' = [kind |-> "hamt", key |-> key, node |-> 0, gen |-> algen[key],
                      isnil |-> docs = << >>, seen |-> docs]
    /\ UNCHANGED <<altrie, alnodes, alterms, algen, radixVars, hamtVars, trigramVars, searchVars, commVars, kvVars, linVars, storeVars, ksVars, snapVars, arenaVars, batcherVars, poolVars, tokVars, hamPtrVars, leafVars, bucketVars, wpoolVars>>

AliasStep ==
    \/ \E trigram \in AliasTrigrams, docID \in DocIDs : AliasTrigramInsert(trigram, docID)
    \/ \E word \in AliasTrigrams : AliasTrigramSearch(word)
    \/ \E word \in AliasKeys, id \in DocIDs : AliasHamtInsert(word, id)
    \/ \E key \in AliasKeys : AliasHamtSearch(key)

\* AddJob, or one round of the loop of GenerateFrom: wp.jobs <- job, which
\* waits while the buffer is full
WPoolAddJob ==
    /\ ~wpjobsClosed
    /\ wpsent < WPoolMaxJobs
    /\ wpjobs < WPoolJobCount
    /\ wpjobs' = wpjobs + 1
    /\ wpsent' = wpsent + 1
    /\ UNCHANGED <<wpjobsClosed, wpresults, wpactive, wpctx, wppc, wpDone, radixVars, hamtVars, trigramVars, searchVars, commVars, kvVars, linVars, storeVars, ksVars, snapVars, arenaVars, batcherVars, poolVars, tokVars, hamPtrVars, leafVars, bucketVars, aliasVars>>

\* GenerateFrom after its loop: close(wp.jobs)
WPoolCloseJobs ==
    /\ ~wpjobsClosed
    /\ wpjobsClosed' = TRUE
    /\ UNCHANGED <<wpjobs, wpresults, wpactive, wpctx, wppc, wpDone, wpsent, radixVars, hamtVars, trigramVars, searchVars, commVars, kvVars, linVars, storeVars, ksVars, snapVars, arenaVars, batcherVars, poolVars, tokVars, hamPtrVars, leafVars, bucketVars, aliasVars>>

\* the context is cancelled
WPoolCancel ==
    /\ ~wpctx
    /\ wpctx' = TRUE
    /\ UNCHANGED <<wpjobs, wpjobsClosed, wpresults, wpactive, wppc, wpDone, wpsent, radixVars, hamtVars, trigramVars, searchVars, commVars, kvVars, linVars, storeVars, ksVars, snapVars, arenaVars, batcherVars, poolVars, tokVars, hamPtrVars, leafVars, bucketVars, aliasVars>>

\* worker w starts: activeWorkers <- 1 (the buffer holds wcount values)
WPoolWorkerStart(w) ==
    /\ wppc[w] = "start"
    /\ wpactive' = wpactive + 1
    /\ wppc' = [wppc EXCEPT ![w] = "select"]
    /\ UNCHANGED <<wpjobs, wpjobsClosed, wpresults, wpctx, wpDone, wpsent, radixVars, hamtVars, trigramVars, searchVars, commVars, kvVars, linVars, storeVars, ksVars, snapVars, arenaVars, batcherVars, poolVars, tokVars, hamPtrVars, leafVars, bucketVars, aliasVars>>

\* the select of worker w takes case job, ok := <-jobs with ok true, and
\* job.execute(ctx) returns
WPoolReceiveJob(w) ==
    /\ wppc[w] = "select"
    /\ wpjobs > 0
    /\ wpjobs' = wpjobs - 1
    /\ wppc' = [wppc EXCEPT ![w] = "sendResult"]
    /\ UNCHANGED <<wpjobsClosed, wpresults, wpactive, wpctx, wpDone, wpsent, radixVars, hamtVars, trigramVars, searchVars, commVars, kvVars, linVars, storeVars, ksVars, snapVars, arenaVars, batcherVars, poolVars, tokVars, hamPtrVars, leafVars, bucketVars, aliasVars>>

\* results <- result of worker w, which waits while the buffer is full
WPoolSendResult(w) ==
    /\ wppc[w] = "sendResult"
    /\ wpresults < WPoolJobCount
    /\ wpresults' = wpresults + 1
    /\ wppc' = [wppc EXCEPT ![w] = "select"]
    /\ UNCHANGED <<wpjobs, wpjobsClosed, wpactive, wpctx, wpDone, wpsent, radixVars, hamtVars, trigramVars, searchVars, commVars, kvVars, linVars, storeVars, ksVars, snapVars, arenaVars, batcherVars, poolVars, tokVars, hamPtrVars, leafVars, bucketVars, aliasVars>>

\* the select of worker w takes case job, ok := <-jobs with ok false (closed
\* and drained): <-activeWorkers, return, wg.Done()
WPoolJobsClosed(w) ==
    /\ wppc[w] = "select"
    /\ wpjobs = 0
    /\ wpjobsClosed
    /\ wpactive' = wpactive - 1
    /\ wppc' = [wppc EXCEPT ![w] = "done"]
    /\ UNCHANGED <<wpjobs, wpjobsClosed, wpresults, wpctx, wpDone, wpsent, radixVars, hamtVars, trigramVars, searchVars, commVars, kvVars, linVars, storeVars, ksVars, snapVars, arenaVars, batcherVars, poolVars, tokVars, hamPtrVars, leafVars, bucketVars, aliasVars>>

\* the select of worker w takes case <-ctx.Done()
WPoolCtxDone(w) ==
    /\ wppc[w] = "select"
    /\ wpctx
    /\ wppc' = [wppc EXCEPT ![w] = "sendErr"]
    /\ UNCHANGED <<wpjobs, wpjobsClosed, wpresults, wpactive, wpctx, wpDone, wpsent, radixVars, hamtVars, trigramVars, searchVars, commVars, kvVars, linVars, storeVars, ksVars, snapVars, arenaVars, batcherVars, poolVars, tokVars, hamPtrVars, leafVars, bucketVars, aliasVars>>

\* results <- Result{Err: ctx.Err()} of worker w, which waits while the
\* buffer is full; then <-activeWorkers, return, wg.Done()
WPoolSendErr(w) ==
    /\ wppc[w] = "sendErr"
    /\ wpresults < WPoolJobCount
    /\ wpresults' = wpresults + 1
    /\ wpactive' = wpactive - 1
    /\ wppc' = [wppc EXCEPT ![w] = "done"]
    /\ UNCHANGED <<wpjobs, wpjobsClosed, wpctx, wpDone, wpsent, radixVars, hamtVars, trigramVars, searchVars, commVars, kvVars, linVars, storeVars, ksVars, snapVars, arenaVars, batcherVars, poolVars, tokVars, hamPtrVars, leafVars, bucketVars, aliasVars>>

\* Run: wg.Wait() returns, close(wp.Done), close(wp.results)
WPoolRunClose ==
    /\ ~wpDone
    /\ \A w \in WPoolWorkers : wppc[w] = "done"
    /\ wpDone' = TRUE
    /\ UNCHANGED <<wpjobs, wpjobsClosed, wpresults, wpactive, wpctx, wppc, wpsent, radixVars, hamtVars, trigramVars, searchVars, commVars, kvVars, linVars, storeVars, ksVars, snapVars, arenaVars, batcherVars, poolVars, tokVars, hamPtrVars, leafVars, bucketVars, aliasVars>>

\* the steps of the goroutine of worker w
WPoolWorker(w) ==
    \/ WPoolWorkerStart(w)
    \/ WPoolReceiveJob(w)
    \/ WPoolSendResult(w)
    \/ WPoolJobsClosed(w)
    \/ WPoolCtxDone(w)
    \/ WPoolSendErr(w)

WPoolStep ==
    \/ WPoolAddJob
    \/ WPoolCloseJobs
    \/ WPoolCancel
    \/ \E w \in WPoolWorkers : WPoolWorker(w)
    \/ WPoolRunClose

AllCommKeys == UNION { CommKeys(kind) : kind \in Kinds }

CommStep ==
    \/ \E kind \in Kinds : CommNew(kind)
    \/ \E key \in AllCommKeys, id \in DocIDs : CommInsertA(key, id)
    \/ \E key \in AllCommKeys, id \in DocIDs : CommInsertB(key, id)

SearchStep ==
    \/ \E docID \in DocIDs, content \in Contents : IndexDocumentAct(docID, content)
    \/ \E query \in Queries, maxResults \in 0..SearchMaxResults :
          SearchDocumentsAct(query, maxResults)

TrigramStep == \E trigram \in TrigramInputs, docID \in DocIDs : TrigramInsertAct(trigram, docID)

HamtStep == \E word \in HamtKeys, id \in DocIDs : HamtInsertAct(word, id)

RadixStep == \E word \in RadixKeys, docID \in DocIDs : RadixInsertAct(word, docID)

Init == RadixInit /\ HamtInit /\ TrigramInit /\ SearchInit /\ CommInit /\ KVInit /\ LinInit /\ StoreInit /\ KSInit /\ SnapInit /\ ArenaInit /\ BatcherInit /\ PoolInit /\ TokInit /\ HamInit /\ LeafInit /\ BucketInit /\ AliasInit /\ WPoolInit

SpecRadix == Init /\ [][RadixStep]_vars

SpecHamt == Init /\ [][HamtStep]_vars

SpecTrigram == Init /\ [][TrigramStep]_vars

SpecSearch == Init /\ [][SearchStep]_vars

SpecComm == Init /\ [][CommStep]_vars

SpecKV == Init /\ [][KVStep]_vars

SpecLin == Init /\ [][LinStep]_vars

SpecStore == Init /\ [][StoreStep]_vars

SpecKVSearch == Init /\ [][KSStep]_vars

SpecSnap == Init /\ [][SnapStep]_vars

SpecArena == Init /\ [][ArenaStep]_vars

SpecBatcher == Init /\ [][BatcherStep]_vars

SpecPool == Init /\ [][PoolStep]_vars

SpecTok == Init /\ [][TokStep]_vars

SpecHamPtr == Init /\ [][HamStep]_vars

SpecLeaf == Init /\ [][LeafStep]_vars

SpecBucket == Init /\ [][BucketStep]_vars

SpecAlias == Init /\ [][AliasStep]_vars

SpecWPool == Init /\ [][WPoolStep]_vars

\* the Go scheduler runs every goroutine that can take a step: the workers
\* and Run are weakly fair, the callers of AddJob, GenerateFrom and cancel
\* are not
SpecWPoolFair ==
    /\ SpecWPool
    /\ \A w \in WPoolWorkers : WF_vars(WPoolWorker(w))
    /\ WF_vars(WPoolRunClose)

\* the postings the Insert calls made so far put under key k
RadixExpected(k) ==
    LET ds == { d \in DocIDs : rhist[<<k, d>>] > 0 }
    IN  [d \in ds |-> rhist[<<k, d>>]]

RadixInserted(k) == \E d \in DocIDs : rhist[<<k, d>>] > 0

\* C1: after any sequence of radix Insert calls, Search(k) of every inserted
\* non-empty key k returns exactly the docIDs inserted under k, each with the
\* number of Insert(k, d) calls made.
C1_RadixRoundTrip ==
    \A k \in RadixKeys :
        (k # << >> /\ RadixInserted(k)) => RadixSearch(rnodes, k) = RadixExpected(k)

\* "ab" inserted twice for "1" and once for "2" below a split edge with "abc"
C1_Witness ==
    /\ rhist[<< <<97, 98>>, <<49>> >>] = 2
    /\ rhist[<< <<97, 98>>, <<50>> >>] = 1
    /\ rhist[<< <<97, 98, 99>>, <<49>> >>] = 1
    /\ RadixSearch(rnodes, <<97, 98>>) = RadixExpected(<<97, 98>>)

\* C2: Search(k) is empty for every key k that was never inserted.
C2_RadixAbsentEmpty ==
    \A k \in RadixKeys :
        ~RadixInserted(k) => RadixSearch(rnodes, k) = << >>

\* the Documents the Insert calls made so far put under key k, as a set
HamtExpected(k) ==
    { [ID |-> d, Count |-> hhist[<<k, d>>]] : d \in { x \in DocIDs : hhist[<<k, x>>] > 0 } }

\* the elements of a sequence
\* C3: in the arena HAMT, Search(k) returns exactly the postings inserted under
\* k, one Document per docID with the number of Insert(k, docID) calls as its
\* count, and nothing for a key never inserted, also for keys with equal
\* hashes or equal slot indices on all six levels.
C3_HamtRoundTrip ==
    \A k \in HamtKeys :
        LET r == HamtSearch(hnodes, hterms, k)
        IN  Range(r) = HamtExpected(k) /\ Len(r) = Cardinality(HamtExpected(k))

\* "liquid" and "costarring" (equal hashes) and "eklu" (another bucket) are
\* stored, "cbaba" (the slots of "eklu") is not, and all four searches are right
C3_Witness ==
    /\ hhist[<< <<108, 105, 113, 117, 105, 100>>, <<50>> >>] = 2
    /\ hhist[<< <<99, 111, 115, 116, 97, 114, 114, 105, 110, 103>>, <<49>> >>] = 1
    /\ hhist[<< <<101, 107, 108, 117>>, <<49>> >>] = 1
    /\ Len(hterms) = 2
    /\ Len(hterms[1].entries) + Len(hterms[2].entries) = 3
    /\ HamtSearch(hnodes, hterms, <<99, 98, 97, 98, 97>>) = << >>
    /\ HamtSearch(hnodes, hterms, <<108, 105, 113, 117, 105, 100>>)
          = << [ID |-> <<50>>, Count |-> 2] >>

\* len(key) = 3 and every byte in 'a'..'z'
ValidTrigram(key) == Len(key) = 3 /\ \A i \in 1..3 : key[i] >= 97 /\ key[i] <= 122

\* the count stored for (key, docID) in heap h: the posting map of the node
\* reached by the three bytes of key, 0 where there is none
TrigramCount(h, key, docID) ==
    LET r == TrigramSearch(h, key)
    IN  IF r.err = "nil" /\ docID \in DOMAIN r.docs THEN r.docs[docID] ELSE 0

\* the nodes of heap h at depth 3 under child indices within 0..25
TrigramLeaves(h) ==
    { h[h[h[1].children[a]].children[b]].children[c] :
        <<a, b, c>> \in { t \in (0..25) \X (0..25) \X (0..25) :
                            /\ t[1] \in DOMAIN h[1].children
                            /\ t[2] \in DOMAIN h[h[1].children[t[1]]].children
                            /\ t[3] \in DOMAIN h[h[h[1].children[t[1]]].children[t[2]]].children } }

\* an Insert(key, docID) returns nil and raises the count of (key, docID) by
\* one iff key has length 3 over [a-z]; otherwise it returns an error; in both
\* cases no other posting changes
TrigramInsertEffect ==
    [][ LET key == tlast'.key
            doc == tlast'.docID
        IN  /\ (tlast'.err = "nil") <=> ValidTrigram(key)
            /\ \A k \in TrigramInputs, d \in DocIDs :
                  TrigramCount(ttrie', k, d) =
                      TrigramCount(ttrie, k, d)
                        + (IF ValidTrigram(key) /\ k = key /\ d = doc THEN 1 ELSE 0)
            /\ \A n \in 1..Len(ttrie) : ttrie'[n].docs # ttrie[n].docs =>
                  (ValidTrigram(key) /\ TrigramSearch(ttrie', key).docs = ttrie'[n].docs)
      ]_trigramVars

\* every posting map that holds a posting belongs to a node reached by three
\* child indices within 'a'..'z', that is to a key of length 3 over [a-z]
TrigramAlphabet ==
    \A n \in 1..Len(ttrie) : ttrie[n].docs # EmptyDocs => n \in TrigramLeaves(ttrie)

\* C8: trigram Insert(key, docID) succeeds and raises the count of (key, docID)
\* by one if and only if len(key) = 3 and every byte of key is in 'a'..'z'; for
\* every other key it returns an error and no posting of any key changes, so
\* every key with a non-empty posting map has length 3 over [a-z].
C8_TrigramInsert == TrigramInsertEffect /\ []TrigramAlphabet

\* "abc" was inserted twice for "1", then Insert("a{c", "2") was rejected after
\* it had walked (and left) the node of 'a'
C8_Witness ==
    /\ tlast = [key |-> <<97, 123, 99>>, docID |-> <<50>>,
                err |-> "invalid character in trigram"]
    /\ TrigramCount(ttrie, <<97, 98, 99>>, <<49>>) = 2
    /\ tcalls = 3

\* C4: the ResultData list returned by SearchDocuments has length at most
\* min(maxResults, number of distinct matching documents).
C4_TopK ==
    sres.err = "nil" =>
        /\ Len(sres.ResultData) <= sres.maxResults
        /\ Len(sres.ResultData) <= sres.TotalResultsCount

\* C5: the returned ResultData is ordered so that for every adjacent pair
\* (a, b): a.UniqueMatches > b.UniqueMatches, or they are equal and
\* a.TotalMatches >= b.TotalMatches.
C5_Ranked ==
    \A i \in 1..(Len(sres.ResultData) - 1) :
        LET a == sres.ResultData[i]
            b == sres.ResultData[i + 1]
        IN  \/ a.UniqueMatches > b.UniqueMatches
            \/ a.UniqueMatches = b.UniqueMatches /\ a.TotalMatches >= b.TotalMatches

\* the query "abc" matches one key in both documents, and "2", which holds
\* the key twice, is ranked before "1", which holds it once
C5_Witness ==
    /\ sres.query = <<97, 98, 99>>
    /\ sres.err = "nil"
    /\ Len(sres.ResultData) = 2
    /\ sres.ResultData[1].ID = <<50>>
    /\ sres.ResultData[1].UniqueMatches = sres.ResultData[2].UniqueMatches
    /\ sres.ResultData[1].TotalMatches > sres.ResultData[2].TotalMatches

\* the number of times IndexDocument calls made so far would have inserted
\* key for docID had every token whose key generation succeeds been indexed
KeysOfGoodTokens(content) ==
    LET tokens == Tokenize(content)
    IN  [i \in 1..Len(tokens) |->
            IF IsStopWord(tokens[i]) THEN << >>
            ELSE TrigramKeys(Stem(tokens[i])).keys]

BestEffortCount(key, docID) ==
    SumOver([i \in 1..Len(sdone) |->
                IF sdone[i].docID # docID THEN 0
                ELSE LET ks == KeysOfGoodTokens(sdone[i].content)
                     IN  SumOver([j \in 1..Len(ks) |-> Occurrences(ks[j], key)],
                                 1..Len(ks))],
            1..Len(sdone))

\* the trigrams of the words of the model
ServiceKeys == { <<97, 98, 99>>, <<98, 99, 100>>, <<97, 98, 100>> }

\* C6: IndexDocument indexes best-effort per key: a key-generation or insert
\* failure of one token does not abort the document, so every key of every
\* other token is in the index.
C6_BestEffort ==
    \A key \in ServiceKeys, docID \in DocIDs :
        TrigramCount(sindex, key, docID) = BestEffortCount(key, docID)

\* the stemmed tokens of a query that are not stop words
QueryTokens(query) ==
    LET tokens == SelectSeq(Tokenize(query), LAMBDA t : ~IsStopWord(t))
    IN  [i \in 1..Len(tokens) |-> Stem(tokens[i])]

RECURSIVE Join(_)
\* the tokens separated by spaces
Join(tokens) ==
    IF tokens = << >> THEN << >>
    ELSE IF Len(tokens) = 1 THEN tokens[1]
    ELSE tokens[1] \o <<32>> \o Join(Tail(tokens))

\* C7: with the trigram key generator a query holding a token of fewer than
\* 3 characters is evaluated without error: the token contributes no keys
\* and the documents returned are those the remaining tokens match.
C7_ShortTokenNoKeys ==
    [][ (sres' # sres /\ \E i \in 1..Len(QueryTokens(sres'.query)) :
                            Len(QueryTokens(sres'.query)[i]) < 3)
        => LET rest == Matches(sindex,
                          Join(SelectSeq(QueryTokens(sres'.query), LAMBDA t : Len(t) >= 3)))
           IN  /\ sres'.err = "nil"
               /\ sres'.TotalResultsCount = Cardinality(rest)
               /\ \A i \in 1..Len(sres'.ResultData) : sres'.ResultData[i].ID \in rest
      ]_vars

\* C9: insertion order commutes: two indexes of one kind that took the same
\* multiset of successful inserts in different orders return the same
\* postings from Search for every key.
C9_InsertOrderCommutes ==
    (ckind # "none" /\ cpend = EmptyBag) =>
        \A key \in CommKeys(ckind) :
            IndexSearch(ckind, cA, key) = IndexSearch(ckind, cB, key)

\* both radix tries took "abc" and "abd" for two documents, in different
\* orders: their node layouts differ
C9_Witness ==
    /\ ckind = "radix"
    /\ cpend = EmptyBag
    /\ cn >= 2
    /\ cA # cB
    /\ DOMAIN IndexSearch(ckind, cA, <<97, 98, 99>>) # {}
    /\ DOMAIN IndexSearch(ckind, cA, <<97, 98, 100>>) # {}

\* the documents named by the entries of the posting list of a word
PostingDocIDs(db, word) ==
    LET r == GetWord(db, word)
    IN  { Split(r.entries[i], 58)[1] : i \in 1..Len(r.entries) }

\* C10: when workers index different documents that share a word
\* concurrently, then once the indexing calls have returned the posting list
\* of the word holds an entry for each of the documents, whatever the
\* interleaving of their reads and batch writes.
C10_NoLostUpdate ==
    (\A w \in KVWorkers : kvw[w].pc = "idle") =>
        \A d \in kvdone :
            \A word \in Range(preprocessText(d.Abstract)) :
                d.ID \in PostingDocIDs(kvdb, word)

RECURSIVE RadixBuild(_, _)
\* a radix trie that took the Insert calls of a bag one after the other
RadixBuild(h, calls) ==
    IF \A op \in LinOps : calls[op] = 0 THEN h
    ELSE LET op == CHOOSE o \in LinOps : calls[o] > 0
         IN  RadixBuild(RadixInsert(h, op[1], op[2]),
                        [calls EXCEPT ![op] = @ - 1])

\* C11: Insert and Search on the radix trie are linearizable under its RW
\* lock: every Search returns what it returns on a trie that took a set of
\* whole Insert calls, which holds every Insert that had returned when the
\* Search was called and no Insert called after the Search returned; no
\* half-applied Insert is observed.
C11_Linearizable ==
    lres.called =>
        \E calls \in [LinOps -> 0..LinMaxCalls] :
            /\ \A op \in LinOps : lres.lower[op] <= calls[op] /\ calls[op] <= lres.upper[op]
            /\ lres.result = RadixSearch(RadixBuild(RadixNew, calls), lres.key)

\* a Search of "abc" returned its postings although it was called while an
\* Insert that splits the edge "abc" held or awaited the lock
C11_Witness ==
    /\ lres.called
    /\ lres.key = <<97, 98, 99>>
    /\ DOMAIN lres.result # {}
    /\ \E d \in DocIDs : lres.upper[<<<<97, 98, 100>>, d>>] > lres.lower[<<<<97, 98, 100>>, d>>]

RECURSIVE LevelSlot(_, _)
\* the 5-bit slot of a hash at a level of the HAMT, level 0 at the root
LevelSlot(hash, level) ==
    IF level = 0 THEN HashSlot(hash) ELSE LevelSlot(HashShift(hash), level - 1)

\* the keys given to HAMT Insert so far
HamtInserted == { k \in HamtKeys : \E d \in DocIDs : hhist[<<k, d>>] > 0 }

RECURSIVE HamtDense(_, _, _)
\* node n at a level is dense and routes exactly the keys S that reach it:
\* as many children as set bits, every key of S in a set slot, and under the
\* child of a set bit i exactly the keys of S whose slot at the level is i
HamtDense(n, level, S) ==
    /\ Cardinality(hnodes[n].bitmap) = Len(hnodes[n].children)
    /\ \A k \in S : LevelSlot(HashOf(k), level) \in hnodes[n].bitmap
    /\ \A i \in hnodes[n].bitmap :
          LET child == hnodes[n].children[OnesBelow(hnodes[n].bitmap, i) + 1]
              Si    == { k \in S : LevelSlot(HashOf(k), level) = i }
          IN  IF level = depth - 2
              THEN { e.key : e \in Range(hterms[child].entries) } = Si
              ELSE HamtDense(child, level + 1, Si)

\* C12: after any sequence of HAMT Insert calls every internal node has
\* popcount(bitmap) = len(children), and for every set bit i the child at
\* position popcount(bitmap & ((1 << i) - 1)) holds exactly the keys whose
\* 5-bit hash slot at that level is i.
C12_HamtDensity == HamtDense(1, 0, HamtInserted)

\* the root and a deeper node have two children each, and one terminal
\* holds two keys
C12_Witness ==
    /\ Cardinality(hnodes[1].bitmap) >= 2
    /\ \E n \in 2..Len(hnodes) : Cardinality(hnodes[n].bitmap) >= 2
    /\ \E t \in 1..Len(hterms) : Len(hterms[t].entries) >= 2

RECURSIVE TerminalPaths(_, _, _)
\* the strings spelled by the prefixes from the root down to each terminal
\* node at or below node n, where acc is the string spelled down to n
TerminalPaths(h, n, acc) ==
    (IF h[n].terminal THEN {acc} ELSE {})
    \cup UNION { TerminalPaths(h, h[n].children[i], acc \o h[h[n].children[i]].prefix) :
                    i \in 1..Len(h[n].children) }

\* C13: after any sequence of radix Insert calls the strings obtained by
\* concatenating the prefixes from the root to each terminal node are exactly
\* the inserted keys.
C13_RadixStructural ==
    TerminalPaths(rnodes, 1, << >>) = { k \in RadixKeys : RadixInserted(k) }

\* "abc" and "abd" hang below a middle node "ab" that is not terminal, and
\* "a" was inserted afterwards by a second split
C13_Witness ==
    /\ { k \in RadixKeys : RadixInserted(k) } = { <<97>>, <<97, 98, 99>>, <<97, 98, 100>> }
    /\ \E n \in 2..Len(rnodes) : rnodes[n].prefix = <<98>> /\ ~rnodes[n].terminal
    /\ TerminalPaths(rnodes, 1, << >>) = { <<97>>, <<97, 98, 99>>, <<97, 98, 100>> }

\* C14: after any sequence of radix Insert calls no two children of a node
\* have prefixes with a non-empty common prefix, also right after a split.
C14_SiblingPrefixes ==
    \A n \in 1..Len(rnodes) :
        \A i, j \in 1..Len(rnodes[n].children) :
            i # j => lcp(rnodes[rnodes[n].children[i]].prefix,
                         rnodes[rnodes[n].children[j]].prefix) = 0

\* a split left a middle node with the old child and the new leaf, and the
\* root has another child besides
C14_Witness ==
    /\ Len(rnodes[1].children) >= 2
    /\ \E n \in 2..Len(rnodes) :
          /\ ~rnodes[n].terminal
          /\ Len(rnodes[n].children) = 2
          /\ rnodes[rnodes[n].children[1]].prefix # << >>
          /\ rnodes[rnodes[n].children[2]].prefix # << >>

\* the distinct keys a query derives
QueryKeys(query) ==
    UNION { Range(TrigramKeys(QueryTokens(query)[i]).keys) :
              i \in 1..Len(QueryTokens(query)) }

\* C15: for every result of SearchDocuments, UniqueMatches is the number of
\* distinct query-derived keys whose lookup contains the docID; a key that
\* occurs more than once among the keys of the query is counted once.
C15_UniqueMatchesDistinct ==
    [][ (sres' # sres /\ sres'.err = "nil")
        => \A i \in 1..Len(sres'.ResultData) :
              sres'.ResultData[i].UniqueMatches =
                  Cardinality({ key \in QueryKeys(sres'.query) :
                      sres'.ResultData[i].ID \in DOMAIN TrigramSearch(sindex, key).docs })
      ]_vars

\* the tokens of a text whose lowercase form is a stop word
StopTokens(content) ==
    SelectSeq(Tokenize(content), LAMBDA t : IsStopWord(ToLower(t)))

\* the keys that only a stop word of the model yields: "the"
StopWordKeys == { <<116, 104, 101>> }

\* C16: a token whose lowercase form is in the stop list is dropped before
\* any key is generated, when indexing and when querying, whatever its
\* letter case; a query made only of such tokens does no lookup and returns
\* zero results without error.
C16_StopWordsDropped ==
    /\ \A key \in StopWordKeys, docID \in DocIDs : TrigramCount(sindex, key, docID) = 0
    /\ (/\ sres.err # "none"
        /\ Len(StopTokens(sres.query)) = Len(Tokenize(sres.query)))
       => (sres.err = "nil" /\ sres.ResultData = << >> /\ sres.TotalResultsCount = 0)

RECURSIVE IndexAll(_, _)
\* the index after the IndexDocument calls of a history, one after the other
IndexAll(h, calls) ==
    IF calls = << >> THEN h
    ELSE IndexAll(IndexDocument(h, Head(calls).docID, Head(calls).content).heap,
                  Tail(calls))

\* a history without its call number i
Without(calls, i) == SubSeq(calls, 1, i - 1) \o SubSeq(calls, i + 1, Len(calls))

\* what the queries report for docID on index h: per query [unique, total],
\* zeros when the document does not match
Reported(h, docID) ==
    [q \in Queries |->
        LET acc == SearchTokens(h, Tokenize(q),
                                [unique |-> << >>, total |-> << >>, err |-> "nil"])
        IN  IF acc.err = "nil" /\ docID \in DOMAIN acc.unique
            THEN [unique |-> acc.unique[docID], total |-> acc.total[docID]]
            ELSE [unique |-> 0, total |-> 0]]

\* C17: with a trie-backed index, indexing the same (docID, content) a second
\* time doubles the TotalMatches every query reports for the document and
\* leaves its UniqueMatches unchanged.
C17_ReindexDoubles ==
    \A docID \in DocIDs :
        LET mine == { i \in 1..Len(sdone) : sdone[i].docID = docID }
        IN  (Cardinality(mine) = 2 /\ \A i, j \in mine : sdone[i] = sdone[j])
            => LET last   == CHOOSE i \in mine : \A j \in mine : j <= i
                   once   == Reported(IndexAll(<< TrigramNewNode >>, Without(sdone, last)), docID)
                   twice  == Reported(sindex, docID)
               IN  \A q \in Queries :
                      /\ twice[q].total = 2 * once[q].total
                      /\ twice[q].unique = once[q].unique

\* "abc abcd" was indexed twice for "1": the key "abc" counts 4
C17_Witness ==
    /\ Len(sdone) >= 2
    /\ sdone[1] = [docID |-> <<49>>, content |-> <<97, 98, 99, 32, 97, 98, 99, 100>>]
    /\ sdone[2] = sdone[1]
    /\ TrigramCount(sindex, <<97, 98, 99>>, <<49>>) = 4
    /\ Reported(sindex, <<49>>)[<<97, 98, 99, 100>>] = [unique |-> 2, total |-> 6]

\* the results a search ranks and keeps before it fetches their documents
StoreRanked(db, query, maxResults, order) ==
    LET docMatches == DocMatches(db, query, order)
    IN  Take(docMatches, Min({Len(docMatches), maxResults}))

\* the IDs of a list of results, in order
ResultIDs(results) == [i \in 1..Len(results) |-> results[i].ID]

\* C18: when the fetch of the document body fails or finds nothing for one
\* of the ranked documents, the search returns without an error and without
\* crashing, and its results are the ranked ones whose fetch succeeded
C18_FetchFailureDropsOnlyThatResult ==
    stlast.op = "search" =>
        LET ranked  == StoreRanked(stdb, stlast.query, stlast.maxResults, stlast.order)
            fetched == SelectSeq(ranked, LAMBDA r :
                           LET got == GetDocument(stdb, r.ID, stlast.failing)
                           IN  got.err = "nil" /\ got.found)
        IN  /\ stlast.res.outcome = "ok"
            /\ ResultIDs(stlast.res.ResultData) = ResultIDs(fetched)

\* the word keys of a store
WordKeys(db) == { k \in DOMAIN db : HasPrefix(k, WordPrefix) }

\* the entries of the posting list of a word key, none when the key is absent
Entries(db, key) == IF key \in DOMAIN db THEN Split(db[key], 44) ELSE << >>

\* the position of the first colon of an entry, Len + 1 when it has none
ColonAt(entry) ==
    Min({ i \in 1..Len(entry) : entry[i] = 58 } \cup { Len(entry) + 1 })

\* the docID an entry names
EntryID(entry) == SubSeq(entry, 1, ColonAt(entry) - 1)

\* the count an entry carries
EntryCount(entry) == Atoi(SubSeq(entry, ColonAt(entry) + 1, Len(entry)))

\* C19: an indexing call for document d with word list W leaves, for every
\* distinct word w of W, the earlier entries of w's posting list followed by
\* one entry d:m with m the occurrences of w in W, the list has no leading
\* or trailing comma, and every other word key is as it was
C19_IndexingAppendsOneEntry ==
    stlast.op = "index" =>
        LET d == stlast.doc.ID
            W == preprocessText(stlast.doc.Abstract)
            touched == { WordKey(w) : w \in Range(W) }
        IN  /\ \A w \in Range(W) :
                  LET old == Entries(stlast.before, WordKey(w))
                      new == Entries(stdb, WordKey(w))
                      value == stdb[WordKey(w)]
                  IN  /\ WordKey(w) \in DOMAIN stdb
                      /\ Len(new) = Len(old) + 1
                      /\ Take(new, Len(old)) = old
                      /\ EntryID(new[Len(new)]) = d
                      /\ EntryCount(new[Len(new)]) = Occurrences(W, w)
                      /\ value # << >> /\ value[1] # 44 /\ value[Len(value)] # 44
            /\ WordKeys(stdb) \ touched = WordKeys(stlast.before) \ touched
            /\ \A k \in WordKeys(stdb) \ touched : stdb[k] = stlast.before[k]

\* an indexing call has indexed a document a second time: the list of one of
\* its words holds two entries for it
C19_Witness ==
    /\ stlast.op = "index"
    /\ \E w \in Range(preprocessText(stlast.doc.Abstract)) :
          LET new == Entries(stdb, WordKey(w))
          IN  /\ Len(new) >= 2
              /\ EntryID(new[Len(new)]) = stlast.doc.ID
              /\ EntryID(new[Len(new) - 1]) = stlast.doc.ID

\* C20: after DeleteDocument(d) no posting list has an entry for d, a word
\* key whose entries all named d is gone, and every other word key keeps
\* the entries of the other documents, with their counts, in their order
C20_DeleteRemovesEntries ==
    stlast.op = "delete" =>
        LET d == stlast.docID
        IN  /\ \A k \in WordKeys(stdb) :
                  \A i \in 1..Len(Entries(stdb, k)) : EntryID(Entries(stdb, k)[i]) # d
            /\ \A k \in WordKeys(stlast.before) :
                  LET others == SelectSeq(Entries(stlast.before, k),
                                          LAMBDA entry : EntryID(entry) # d)
                  IN  IF others = << >>
                      THEN k \notin DOMAIN stdb
                      ELSE k \in DOMAIN stdb /\ Entries(stdb, k) = others
            /\ WordKeys(stdb) \subseteq WordKeys(stlast.before)

\* a delete has removed a word key whose entries all named the document and
\* shortened the list of a word that another document has too
C20_Witness ==
    /\ stlast.op = "delete"
    /\ \E k \in WordKeys(stlast.before) : k \notin DOMAIN stdb
    /\ \E k \in WordKeys(stdb) :
          /\ Len(Entries(stdb, k)) < Len(Entries(stlast.before, k))
          /\ Len(Entries(stdb, k)) >= 1

RECURSIVE EntriesNaming(_, _, _)
\* the posting entries naming docID in the lists of the query tokens, a
\* token that occurs twice counted twice
EntriesNaming(db, tokens, docID) ==
    IF tokens = << >> THEN << >>
    ELSE SelectSeq(Entries(db, WordKey(Head(tokens))),
                   LAMBDA entry : EntryID(entry) = docID)
         \o EntriesNaming(db, Tail(tokens), docID)

RECURSIVE SumCounts(_)
\* the sum of the counts of a list of entries
SumCounts(entries) ==
    IF entries = << >> THEN 0
    ELSE EntryCount(Head(entries)) + SumCounts(Tail(entries))

\* the docIDs of the documents of the model
KVDocIDs == { d.ID : d \in KVDocuments }

\* C21: when the lookups of a KV search are done, however the goroutines
\* interleaved, the documents it found are those named by an entry of a
\* query token's list, each with UniqueMatches the number of such entries
\* and TotalMatches the sum of their counts
C21_SearchCountsEntries ==
    gres.called =>
        LET tokens == preprocessText(gres.query)
            naming(docID) == EntriesNaming(gres.db, tokens, docID)
            found == { docID \in KVDocIDs : naming(docID) # << >> }
        IN  /\ DOMAIN gres.docFrequency = found
            /\ DOMAIN gres.wordMatchCount = found
            /\ \A docID \in found :
                  /\ gres.wordMatchCount[docID] = Len(naming(docID))
                  /\ gres.docFrequency[docID] = SumCounts(naming(docID))

\* a search of two tokens has returned a document that both lists name, one
\* of them with a count above 1
C21_Witness ==
    /\ gres.called
    /\ Len(preprocessText(gres.query)) = 2
    /\ \E docID \in DOMAIN gres.wordMatchCount :
          /\ gres.wordMatchCount[docID] >= 2
          /\ gres.docFrequency[docID] > gres.wordMatchCount[docID]

\* C22: a result returned by radix Search is a copy: a write to it changes
\* no later Search result (the trie stays what the Insert calls built), and
\* a later Insert changes no result already returned (each held result has
\* the contents its holder last saw or wrote)
C22_SearchResultIsSnapshot ==
    /\ \A k \in LinKeys : RadixSearch(snheap, k) = RadixSearch(snpure, k)
    /\ \A i \in DOMAIN snheld : ResultContents(snheap, snheld[i].r) = snheld[i].seen

\* a caller holds a result that it wrote to, or that an Insert of the same
\* key has followed: its contents differ from what Search returns now
C22_Witness ==
    \E i \in DOMAIN snheld :
        /\ ~snheld[i].r.isnil
        /\ snheld[i].seen # RadixSearch(snheap, snheld[i].key)

\* C23: after any sequence of Insert calls made on both, the arena radix
\* trie and the pointer radix trie return the same docID-to-count mapping
\* from Search(k), for every key k
C23_ArenaEquivalent ==
    \A k \in ArenaKeys : ArenaSearch(aarena, k) = RadixSearch(aptr, k)

\* the postings of one node of the arena, with their key left out
ArenaPostings(h) ==
    { <<node, i>> \in (1..Len(h)) \X (1..2) : i <= Len(h[node].docs) }

\* C27: every posting stored in the arena trie has a count of at least 1,
\* and Search of an inserted key reports for each docID the number of
\* Insert(k, d) calls made, however often the pair was inserted
C27_CountIsInsertCalls ==
    /\ \A x \in ArenaPostings(aarena) : aarena[x[1]].docs[x[2]].count >= 1
    /\ \A k \in ArenaKeys \ { << >> } : \A d \in DocIDs :
          ahist[<<k, d>>] > 0 =>
              /\ d \in DOMAIN ArenaSearch(aarena, k)
              /\ ArenaSearch(aarena, k)[d] = ahist[<<k, d>>]

\* C24: when StopWorkers has returned, every document that BatchDocument
\* accepted has been in exactly one s.db.Write and the store has its
\* doc:<id> key, whichever flush wrote it
C24_AcceptedWrittenOnce ==
    bstop = "returned" =>
        /\ \A n \in 1..Len(bacc) : bwrites[n] = 1 /\ DocKey(bacc[n]) \in DOMAIN bdb
        /\ \A n \in (Len(bacc) + 1)..BatcherMaxDocs : bwrites[n] = 0
        /\ bchan = << >> /\ bbatch = << >>

\* StopWorkers has returned after documents were written by the threshold
\* flush, by the timer flush and by the flush on the closed channel
C24_Witness ==
    /\ bstop = "returned"
    /\ bflushes = {"threshold", "timer", "close"}

\* C25: an AddJob call that no worker has accepted when the context is
\* cancelled returns; no AddJob call panics by sending on the jobs channel
\* that Run has closed
C25_AddJobObservesCancel == pdrv # "panicked"

\* C26: when the driver reports that indexing is complete and starts the
\* UI, every job it handed to the pool has finished executing
C26_IndexedBeforeQueries == pdrv = "reported" => patreport = {}

\* whether a code point is a letter or a digit, among those of the inputs
IsWordRune(rune) ==
    Len(rune) = 1 /\ ( (rune[1] >= 48 /\ rune[1] <= 57)
                       \/ (rune[1] >= 65 /\ rune[1] <= 90)
                       \/ (rune[1] >= 97 /\ rune[1] <= 122) )

RECURSIVE MaximalRuns(_, _, _)
\* the maximal runs of letter-or-digit code points of runes, in order; cur
\* is the run being read
MaximalRuns(runes, cur, acc) ==
    IF runes = << >>
    THEN IF cur = << >> THEN acc ELSE Append(acc, cur)
    ELSE IF IsWordRune(Head(runes))
         THEN MaximalRuns(Tail(runes), cur \o Head(runes), acc)
         ELSE MaximalRuns(Tail(runes), << >>,
                          IF cur = << >> THEN acc ELSE Append(acc, cur))

\* fts_kv.go's Tokenize emits exactly the maximal runs
KVTokensAreMaximalRuns == tktokens.kv = MaximalRuns(tkrunes, << >>, << >>)

\* fts.go's Tokenize emits exactly the maximal runs
FTSTokensAreMaximalRuns == tktokens.fts = MaximalRuns(tkrunes, << >>, << >>)

\* C28: Tokenize (of fts_kv.go and of fts.go) emits, in input order, exactly
\* the maximal runs of letter-or-digit code points of its input: no token
\* is empty or holds a byte of a separator, and digit runs are emitted
C28_TokensAreMaximalRuns == KVTokensAreMaximalRuns /\ FTSTokensAreMaximalRuns

\* the valid keys searched: the valid keys of TrigramInputs and "abe", "acd",
\* "bbc", "xyz", which are never inserted
TrigramProbes ==
    { k \in TrigramInputs : ValidTrigram(k) }
      \cup { <<97, 98, 101>>, <<97, 99, 100>>, <<98, 98, 99>>, <<120, 121, 122>> }

\* the number of Insert(key, docID) calls that returned nil
TrigramInserted(key, docID) ==
    IF <<key, docID>> \in DOMAIN thist THEN thist[<<key, docID>>] ELSE 0

\* C29: after any sequence of Insert calls, Search(k) of a valid 3-letter
\* key k returns no error and exactly the map from docID to the number of
\* successful Insert(k, docID) calls: empty for a key never inserted, also
\* one that shares its first one or two letters with inserted keys
C29_TrigramSearchRoundTrip ==
    \A k \in TrigramProbes :
        LET r == TrigramSearch(ttrie, k)
        IN  /\ r.err = "nil"
            /\ DOMAIN r.docs = { d \in DocIDs : TrigramInserted(k, d) > 0 }
            /\ \A d \in DOMAIN r.docs : r.docs[d] = TrigramInserted(k, d)

\* "abc" was inserted twice for "1" and "bcd" once for "2"; "abd", "abe"
\* (two letters shared), "acd" (one letter shared) were not
C29_Witness ==
    /\ tcalls = 3
    /\ TrigramSearch(ttrie, <<97, 98, 99>>).docs = (<<49>> :> 2)
    /\ TrigramSearch(ttrie, <<98, 99, 100>>).docs = (<<50>> :> 1)
    /\ TrigramSearch(ttrie, <<97, 98, 100>>).docs = << >>
    /\ TrigramSearch(ttrie, <<97, 98, 101>>).docs = << >>
    /\ TrigramSearch(ttrie, <<97, 99, 100>>).docs = << >>

\* C30: the result order of SearchDocuments is deterministic: results with
\* equal (UniqueMatches, TotalMatches) appear in ascending docID order
C30_TiesInDocIDOrder ==
    sres.err = "nil" =>
        \A i, j \in 1..Len(sres.ResultData) :
            (/\ i < j
             /\ sres.ResultData[i].UniqueMatches = sres.ResultData[j].UniqueMatches
             /\ sres.ResultData[i].TotalMatches = sres.ResultData[j].TotalMatches)
            => StrLess(sres.ResultData[i].ID, sres.ResultData[j].ID)

\* C31: after any sequence of radix Insert calls, every non-root node has a
\* non-empty prefix as its edge label
C31_EdgeLabelsNonEmpty ==
    \A n \in 2..Len(rnodes) : rnodes[n].prefix # << >>

\* the count Search reports for (key, docID) on the pointer HAMT
HamCount(key, docID) ==
    LET r == HamSearch(hpnodes, hpterms, key)
    IN  IF docID \in DOMAIN r THEN r[docID] ELSE 0

\* C32: in the pointer HAMT with bitmap-indexed terminals every Insert(K, d)
\* raises the count of (K, d) by exactly 1 and leaves every other count as
\* it was, so Search(K) reports for each d the number of Insert(K, d) calls
C32_HamCountIsInsertCalls ==
    \A k \in HamKeys, d \in DocIDs : HamCount(k, d) = hphist[<<k, d>>]

\* the count Search reports for (key, docID) on the leaf HAMT
LeafCount(key, docID) ==
    LET r == LeafSearch(lfheap, key)
    IN  IF docID \in DOMAIN r THEN r[docID] ELSE 0

\* C33: in the leaf-compressed HAMT, after any sequence of Insert calls
\* every inserted key is found by Search with its per-document counts, also
\* keys whose hashes share the slot on consecutive levels or are equal
C33_LeafRoundTrip ==
    \A k \in LeafKeys, d \in DocIDs : LeafCount(k, d) = lfhist[<<k, d>>]

\* C34: in the arena HAMT with terminal buckets each bucket holds at most
\* one entry per key: re-inserting a key updates its entry and appends none
C34_OneEntryPerKey ==
    \A t \in 1..Len(bkterms) : \A b \in 1..Len(bkterms[t].bucks) :
        \A i, j \in 1..Len(bkterms[t].bucks[b]) :
            bkterms[t].bucks[b][i].key = bkterms[t].bucks[b][j].key => i = j

\* C35: for the trigram trie and the arena HAMT, a posting collection
\* returned by Search is never written by a later Insert: what the caller
\* reads through the result it holds is what Search returned
C35_ResultNeverWritten ==
    ~alheld.isnil => HeldNow(altrie, alnodes, alterms, algen, alheld) = alheld.seen

\* C36: a trigram Insert that returns an error leaves the trie unchanged: no
\* node is created and no posting map is modified
C36_FailedInsertChangesNothing ==
    [][ (tcalls' = tcalls + 1 /\ tlast'.err # "nil") => ttrie' = ttrie ]_trigramVars

\* the number of times docID d is reported by Search(k) in the tree h
RadixReported(h, k, d) ==
    LET r == RadixSearch(h, k) IN IF d \in DOMAIN r THEN r[d] ELSE 0

\* C37: a radix Insert(K, d) changes nothing observable except the count of
\* (K, d): Search(K') of every previously inserted key K' other than K returns
\* the same postings before and after the call, and in Search(K) only the
\* count of d changes.
C37_InsertFrame ==
    [][ \A K \in RadixKeys, d \in DocIDs :
          rhist'[<<K, d>>] = rhist[<<K, d>>] + 1 =>
            /\ \A k \in RadixKeys \ {K} :
                 RadixInserted(k) => RadixSearch(rnodes', k) = RadixSearch(rnodes, k)
            /\ \A x \in DocIDs \ {d} :
                 RadixReported(rnodes', K, x) = RadixReported(rnodes, K, x)
      ]_radixVars

\* C38: in the arena HAMT, after any sequence of Insert calls, the entries of
\* every terminal are in strictly ascending key order and the postings of
\* every entry are in strictly ascending docID order.
C38_TerminalsSorted ==
    \A t \in 1..Len(hterms) :
        LET e == hterms[t].entries
        IN  /\ \A i \in 1..(Len(e) - 1) : StrLess(e[i].key, e[i + 1].key)
            /\ \A i \in 1..Len(e) :
                 \A j \in 1..(Len(e[i].docs) - 1) :
                     StrLess(e[i].docs[j].ID, e[i].docs[j + 1].ID)

\* a terminal holds "costarring" before "liquid", and "liquid" has two postings
C38_Witness ==
    \E t \in 1..Len(hterms) :
        /\ Len(hterms[t].entries) = 2
        /\ hterms[t].entries[1].key = <<99, 111, 115, 116, 97, 114, 114, 105, 110, 103>>
        /\ hterms[t].entries[2].key = <<108, 105, 113, 117, 105, 100>>
        /\ Len(hterms[t].entries[2].docs) = 2

\* C39: after the context is cancelled, every worker of the buffered-results
\* worker pool terminates and Run closes Done, whatever the number of jobs
\* already processed, with nobody receiving from the results channel.
C39_CancelTerminates ==
    wpctx ~> (wpDone /\ \A w \in WPoolWorkers : wppc[w] = "done")

====
